---- MODULE Spec2Model ----
(***************************************************************************)
(* Memedge memory engine: the block store with its in-process cache, the   *)
(* memory tools layered on it, the semantic index (block embeddings and    *)
(* search with its text fallback) and the summary ladder.                  *)
(*                                                                         *)
(* Texts are sequences of one-character strings, so that the string        *)
(* operations of the code (template concatenation, trim, includes,         *)
(* String.prototype.replace, toLowerCase) are computed, not assumed.       *)
(***************************************************************************)
EXTENDS Integers, Sequences, FiniteSets, TLC

VARIABLES
    blocks,     \* table memory_blocks: id -> [label, content, type, updated_at]
    cache,      \* blocksCache: id -> MemoryBlock
    emb,        \* table memory_embeddings: block_id -> vector
    embTable,   \* whether memory_embeddings has been created
    ai,         \* how the embedding gateway answers its next calls
    now,        \* Date.now()
    archival,   \* table archival_memory: id -> [content, created_at]
    last,       \* the step that ran last and its outcome
    summaries,  \* table conversation_summaries_v2, in id order (id = index)
    promo,      \* what checkRecursiveSummarizationNeeded returned last
    blocksTable,    \* whether memory_blocks has been created
    agent_memory,   \* table agent_memory: [exists, rows], rows in updated_at order
    agent_memory_legacy_backup, \* table agent_memory_legacy_backup, likewise
    memoriesCache   \* memoriesCache of the legacy manager: a Map by purpose

vars ==
    <<blocks, cache, emb, embTable, ai, now, archival, last, summaries, promo,
      blocksTable, agent_memory, agent_memory_legacy_backup, memoriesCache>>

ladderVars == <<summaries, promo>>

legacyVars ==
    <<blocksTable, agent_memory, agent_memory_legacy_backup, memoriesCache>>

----------------------------------------------------------------------------
(* Bounds of the model *)

\* longest block content the model lets an insert build
MaxLen == 3
\* last value of the clock
MaxClock == 1
\* most rows of the summaries table
MaxRows == 6
\* length of the vectors the embedding model returns
Dim == 2
\* most rows of the archival table
MaxArchival == 1
\* config.recursiveThreshold of the model (10 by default in the code)
recursiveThreshold == 2
\* config.maxLevel of the model (3 by default in the code)
maxLevel == 2

----------------------------------------------------------------------------
(* Texts *)

Whitespace == {" ", "\n"}

Concat(s, t) == s \o t

RECURSIVE TrimStart(_)
TrimStart(s) ==
    IF s = <<>> THEN s
    ELSE IF Head(s) \in Whitespace THEN TrimStart(Tail(s))
    ELSE s

RECURSIVE TrimEnd(_)
TrimEnd(s) ==
    IF s = <<>> THEN s
    ELSE IF s[Len(s)] \in Whitespace THEN TrimEnd(SubSeq(s, 1, Len(s) - 1))
    ELSE s

\* String.prototype.trim
Trim(s) == TrimEnd(TrimStart(s))

\* whether pat occurs in s at (1-based) position i
OccursAt(s, pat, i) ==
    /\ i >= 1
    /\ i + Len(pat) - 1 <= Len(s)
    /\ SubSeq(s, i, i + Len(pat) - 1) = pat

\* String.prototype.indexOf, 1-based; 0 when pat does not occur
IndexOf(s, pat) ==
    LET hits == {i \in 1..(Len(s) + 1) : OccursAt(s, pat, i)}
    IN IF hits = {} THEN 0 ELSE CHOOSE i \in hits : \A j \in hits : i <= j

\* String.prototype.includes
Includes(s, pat) == IndexOf(s, pat) # 0

LowerChar(c) ==
    CASE c = "A" -> "a"
      [] c = "B" -> "b"
      [] c = "R" -> "r"
      [] c = "U" -> "u"
      [] OTHER -> c

\* String.prototype.toLowerCase
ToLowerCase(s) == [i \in 1..Len(s) |-> LowerChar(s[i])]

\* GetSubstitution of String.prototype.replace for a string pattern (no
\* captures): $$ is a dollar sign, $& the match, $` the text before the match,
\* $' the text after it; any other character, a lone $ included, is literal.
RECURSIVE GetSubstitution(_, _, _, _)
GetSubstitution(rep, matched, before, after) ==
    IF rep = <<>> THEN <<>>
    ELSE IF Head(rep) = "$" /\ Len(rep) >= 2
    THEN LET c == rep[2]
             rest == SubSeq(rep, 3, Len(rep))
         IN CASE c = "$" -> <<"$">> \o GetSubstitution(rest, matched, before, after)
              [] c = "&" -> matched \o GetSubstitution(rest, matched, before, after)
              [] c = "`" -> before \o GetSubstitution(rest, matched, before, after)
              [] c = "'" -> after \o GetSubstitution(rest, matched, before, after)
              [] OTHER -> <<"$">> \o GetSubstitution(Tail(rep), matched, before, after)
    ELSE <<Head(rep)>> \o GetSubstitution(Tail(rep), matched, before, after)

\* String.prototype.replace(pattern: string, replacement: string)
JsReplace(s, pat, rep) ==
    LET i == IndexOf(s, pat)
    IN IF i = 0 THEN s
       ELSE LET before == SubSeq(s, 1, i - 1)
                after == SubSeq(s, i + Len(pat), Len(s))
            IN before \o GetSubstitution(rep, pat, before, after) \o after

----------------------------------------------------------------------------
(* Finite maps (tables and the cache) *)

Put(f, k, v) == [x \in (DOMAIN f) \cup {k} |-> IF x = k THEN v ELSE f[x]]

Del(f, k) == [x \in (DOMAIN f) \ {k} |-> f[x]]

EmptyMap == [x \in {} |-> 0]

----------------------------------------------------------------------------
(* The block store: MemoryBlockManagerLive                                  *)
(*                                                                          *)
(* An operation is a function of the store st = [blocks, cache], of its     *)
(* arguments, of the clock and of err, the class of SQL statements that     *)
(* throw while it runs ("none", "read", "write").  It yields the store      *)
(* after it, res ("ok", or "fail" for a MemoryError), val (the value it     *)
(* returns, as a sequence of at most one block) and stmts (the statements   *)
(* it issued).                                                              *)

Store == [blocks |-> blocks, cache |-> cache]

Outcome(st, res, val, stmts) ==
    [st |-> st, res |-> res, val |-> val, stmts |-> stmts]

\* a row of memory_blocks read back as a MemoryBlock
RowToBlock(id, row) ==
    [id |-> id, label |-> row.label, content |-> row.content,
     type |-> row.type, updated_at |-> row.updated_at]

getBlock(st, id, err) ==
    IF id \in DOMAIN st.cache
    THEN Outcome(st, "ok", <<st.cache[id]>>, <<>>)
    ELSE IF err = "read"
    THEN Outcome(st, "fail", <<>>, <<"SELECT">>)
    ELSE IF id \notin DOMAIN st.blocks
    THEN Outcome(st, "ok", <<>>, <<"SELECT">>)
    ELSE LET block == RowToBlock(id, st.blocks[id])
         IN Outcome([st EXCEPT !.cache = Put(@, id, block)], "ok",
                    <<block>>, <<"SELECT">>)

\* getAllBlocks that also writes to the rows it reads
getAllBlocks_MarksRows(st, ord, err) ==
    IF err = "read"
    THEN Outcome(st, "fail", <<>>, <<"SELECT">>)
    ELSE LET list == [i \in 1..Len(ord) |-> RowToBlock(ord[i], st.blocks[ord[i]])]
             seen == {ord[i] : i \in 1..Len(ord)}
             marked == [x \in DOMAIN st.blocks |->
                          IF x \in seen
                          THEN [st.blocks[x] EXCEPT !.content = <<>>]
                          ELSE st.blocks[x]]
         IN Outcome([blocks |-> marked, cache |-> st.cache], "ok", list,
                    <<"SELECT">>)

\* The rows in the order of ord, a sequence of ids that ORDER BY updated_at
\* DESC allows, each cached as it is read.
getAllBlocks(st, ord, err) ==
    IF err = "read"
    THEN Outcome(st, "fail", <<>>, <<"SELECT">>)
    ELSE LET list == [i \in 1..Len(ord) |-> RowToBlock(ord[i], st.blocks[ord[i]])]
             seen == {ord[i] : i \in 1..Len(ord)}
             cached == [x \in (DOMAIN st.cache) \cup seen |->
                          IF x \in seen THEN RowToBlock(x, st.blocks[x])
                          ELSE st.cache[x]]
         IN Outcome([st EXCEPT !.cache = cached], "ok", list, <<"SELECT">>)

\* type = 'core' when the caller passes none
TypeOrDefault(type) == IF type = "undefined" THEN "core" ELSE type

\* createBlock without the default of its type parameter
createBlock_NoDefaultType(st, id, label, content, type, timestamp, err) ==
    IF err = "write" \/ id \in DOMAIN st.blocks
    THEN Outcome(st, "fail", <<>>, <<"INSERT">>)
    ELSE LET row == [label |-> label, content |-> content, type |-> type,
                     updated_at |-> timestamp]
             block == RowToBlock(id, row)
         IN Outcome([blocks |-> Put(st.blocks, id, row),
                     cache |-> Put(st.cache, id, block)],
                    "ok", <<block>>, <<"INSERT">>)

\* createBlock with INSERT OR REPLACE in place of INSERT
createBlock_Upsert(st, id, label, content, type, timestamp, err) ==
    IF err = "write"
    THEN Outcome(st, "fail", <<>>, <<"INSERT">>)
    ELSE LET t == TypeOrDefault(type)
             row == [label |-> label, content |-> content, type |-> t,
                     updated_at |-> timestamp]
             block == RowToBlock(id, row)
         IN Outcome([blocks |-> Put(st.blocks, id, row),
                     cache |-> Put(st.cache, id, block)],
                    "ok", <<block>>, <<"INSERT">>)

\* INSERT INTO memory_blocks throws on a duplicate id (id is the PRIMARY KEY)
createBlock(st, id, label, content, type, timestamp, err) ==
    IF err = "write" \/ id \in DOMAIN st.blocks
    THEN Outcome(st, "fail", <<>>, <<"INSERT">>)
    ELSE LET t == TypeOrDefault(type)
             row == [label |-> label, content |-> content, type |-> t,
                     updated_at |-> timestamp]
             block == RowToBlock(id, row)
         IN Outcome([blocks |-> Put(st.blocks, id, row),
                     cache |-> Put(st.cache, id, block)],
                    "ok", <<block>>, <<"INSERT">>)

\* updateBlock that embeds the new content first and fails when the gateway does
updateBlock_NeedsGateway(st, id, content, timestamp, err) ==
    IF err = "write" \/ ai # "up"
    THEN Outcome(st, "fail", <<>>, <<"UPDATE">>)
    ELSE Outcome(
           [blocks |-> IF id \in DOMAIN st.blocks
                       THEN [st.blocks EXCEPT ![id].content = content,
                                              ![id].updated_at = timestamp]
                       ELSE st.blocks,
            cache |-> IF id \in DOMAIN st.cache
                      THEN [st.cache EXCEPT ![id].content = content,
                                            ![id].updated_at = timestamp]
                      ELSE st.cache],
           "ok", <<>>, <<"UPDATE">>)

\* updateBlock that patches the cache before the UPDATE runs
updateBlock_CacheFirst(st, id, content, timestamp, err) ==
    LET patched == IF id \in DOMAIN st.cache
                   THEN [st.cache EXCEPT ![id].content = content,
                                         ![id].updated_at = timestamp]
                   ELSE st.cache
    IN IF err = "write"
       THEN Outcome([st EXCEPT !.cache = patched], "fail", <<>>, <<"UPDATE">>)
       ELSE Outcome(
              [blocks |-> IF id \in DOMAIN st.blocks
                          THEN [st.blocks EXCEPT ![id].content = content,
                                                 ![id].updated_at = timestamp]
                          ELSE st.blocks,
               cache |-> patched],
              "ok", <<>>, <<"UPDATE">>)

updateBlock(st, id, content, timestamp, err) ==
    IF err = "write"
    THEN Outcome(st, "fail", <<>>, <<"UPDATE">>)
    ELSE Outcome(
           [blocks |-> IF id \in DOMAIN st.blocks
                       THEN [st.blocks EXCEPT ![id].content = content,
                                              ![id].updated_at = timestamp]
                       ELSE st.blocks,
            cache |-> IF id \in DOMAIN st.cache
                      THEN [st.cache EXCEPT ![id].content = content,
                                            ![id].updated_at = timestamp]
                      ELSE st.cache],
           "ok", <<>>, <<"UPDATE">>)

deleteBlock(st, id, err) ==
    IF err = "write"
    THEN Outcome(st, "fail", <<>>, <<"DELETE">>)
    ELSE Outcome([blocks |-> Del(st.blocks, id), cache |-> Del(st.cache, id)],
                 "ok", <<>>, <<"DELETE">>)

\* InsertedContent that joins the two texts with nothing between them
InsertedContent_NoNewline(old, content, position) ==
    IF position = "start"
    THEN Concat(content, old)
    ELSE Concat(old, content)

\* position = 'end' when the caller passes none
InsertedContent(old, content, position) ==
    IF position = "start"
    THEN Concat(content, Concat(<<"\n">>, old))
    ELSE Concat(old, Concat(<<"\n">>, content))

\* runs next on the outcome of a read, the statements of both in order
Then(g, next) ==
    [next EXCEPT !.stmts = g.stmts \o @]

\* insertContent that takes a block it does not find for an empty one
insertContent_NoCheck(st, blockId, content, position, timestamp, err) ==
    LET g == getBlock(st, blockId, err)
    IN IF g.res = "fail"
       THEN Outcome(g.st, "fail", <<>>, g.stmts)
       ELSE Then(g, updateBlock(g.st, blockId,
                   Trim(InsertedContent(IF g.val = <<>> THEN <<>> ELSE g.val[1].content,
                                        content, position)),
                   timestamp, err))

\* insertContent that writes the new text over what the block holds
insertContent_DropsPrevious(st, blockId, content, position, timestamp, err) ==
    LET g == getBlock(st, blockId, err)
    IN IF g.res = "fail" \/ g.val = <<>>
       THEN Outcome(g.st, "fail", <<>>, g.stmts)
       ELSE Then(g, updateBlock(g.st, blockId, Trim(content), timestamp, err))

insertContent(st, blockId, content, position, timestamp, err) ==
    LET g == getBlock(st, blockId, err)
    IN IF g.res = "fail" \/ g.val = <<>>
       THEN Outcome(g.st, "fail", <<>>, g.stmts)
       ELSE Then(g, updateBlock(g.st, blockId,
                   Trim(InsertedContent(g.val[1].content, content, position)),
                   timestamp, err))

replaceContent(st, blockId, oldContent, newContent, timestamp, err) ==
    LET g == getBlock(st, blockId, err)
    IN IF g.res = "fail" \/ g.val = <<>>
       THEN Outcome(g.st, "fail", <<>>, g.stmts)
       ELSE Then(g, updateBlock(g.st, blockId,
                   JsReplace(g.val[1].content, oldContent, newContent),
                   timestamp, err))

rethinkBlock(st, blockId, newContent, timestamp, err) ==
    LET g == getBlock(st, blockId, err)
    IN IF g.res = "fail" \/ g.val = <<>>
       THEN Outcome(g.st, "fail", <<>>, g.stmts)
       ELSE Then(g, updateBlock(g.st, blockId, newContent, timestamp, err))

\* The cache of a freshly built manager: the core blocks; a failing SELECT
\* (a table that does not exist yet) leaves it empty.
loadCache(st, err) ==
    IF err = "read" THEN EmptyMap
    ELSE [x \in {y \in DOMAIN st.blocks : st.blocks[y].type = "core"} |->
            RowToBlock(x, st.blocks[x])]

\* archival_<Date.now()>_<Math.random().toString(36).substring(7)>; the INSERT
\* throws when the id is taken (id is the PRIMARY KEY of archival_memory)
insertArchival(arch, content, timestamp, rnd, err) ==
    LET id == <<"archival", timestamp, rnd>>
    IN IF err = "write" \/ id \in DOMAIN arch
       THEN [arch |-> arch, res |-> "fail", id |-> id]
       ELSE [arch |-> Put(arch, id, [content |-> content, created_at |-> timestamp]),
             res |-> "ok", id |-> id]

----------------------------------------------------------------------------
(* The memory tools: memory-executor.ts.  res is "ok" for success: true,    *)
(* "false" for success: false, "fail" for a MemoryError.                    *)

\* args.position || 'end'
PositionOrEnd(position) == IF position = "undefined" THEN "end" ELSE position

\* args.type || 'core'
TypeOrCore(type) == IF type = "undefined" THEN "core" ELSE type

executeMemoryInsert(st, block_id, content, position, timestamp, err) ==
    LET g == getBlock(st, block_id, err)
    IN IF g.res = "fail" THEN g
       ELSE IF g.val = <<>> THEN Outcome(g.st, "false", <<>>, g.stmts)
       ELSE Then(g, insertContent(g.st, block_id, content,
                                  PositionOrEnd(position), timestamp, err))

executeMemoryReplace(st, block_id, old_content, new_content, timestamp, err) ==
    LET g == getBlock(st, block_id, err)
    IN IF g.res = "fail" THEN g
       ELSE IF g.val = <<>> THEN Outcome(g.st, "false", <<>>, g.stmts)
       ELSE IF ~Includes(g.val[1].content, old_content)
       THEN Outcome(g.st, "false", <<>>, g.stmts)
       ELSE Then(g, replaceContent(g.st, block_id, old_content, new_content,
                                   timestamp, err))

executeMemoryRethink(st, block_id, new_content, timestamp, err) ==
    LET g == getBlock(st, block_id, err)
    IN IF g.res = "fail" THEN g
       ELSE IF g.val = <<>> THEN Outcome(g.st, "false", <<>>, g.stmts)
       ELSE Then(g, rethinkBlock(g.st, block_id, new_content, timestamp, err))

executeMemoryCreateBlock(st, block_id, label, content, type, timestamp, err) ==
    LET g == getBlock(st, block_id, err)
    IN IF g.res = "fail" THEN g
       ELSE IF g.val # <<>> THEN Outcome(g.st, "false", <<>>, g.stmts)
       ELSE Then(g, createBlock(g.st, block_id, label, content,
                                TypeOrCore(type), timestamp, err))

----------------------------------------------------------------------------
(* The semantic index: semantic-search.ts                                   *)
(*                                                                          *)
(* res is "ok", "fail" for a MemoryError (a failure Effect.orElse           *)
(* recovers from) or "die" for an exception thrown in the body of an        *)
(* Effect.gen (a defect, which Effect.orElse does not recover from).        *)

GatewayModes == {"up", "down", "novector", "baddim"}

RECURSIVE CountIn(_, _)
CountIn(s, cs) ==
    IF s = <<>> THEN 0
    ELSE (IF Head(s) \in cs THEN 1 ELSE 0) + CountIn(Tail(s), cs)

\* The embedding model, a fixed function of the text: component 1 counts the
\* letter a, component 2 the letter b, the others the remaining characters.
Embed(text, d) ==
    [i \in 1..d |->
        IF i = 1 THEN CountIn(text, {"a", "A"})
        ELSE IF i = 2 THEN CountIn(text, {"b", "B"})
        ELSE CountIn(text, Whitespace \cup {"$", "&"})]

\* ai.run: rejected ("down"), answered without data ("novector"), answered by
\* the model ("up"), or answered with a vector of another length ("baddim")
generateEmbedding(text, mode) ==
    CASE mode = "up" -> [res |-> "ok", vec |-> Embed(text, Dim)]
      [] mode = "baddim" -> [res |-> "ok", vec |-> Embed(text, Dim + 1)]
      [] OTHER -> [res |-> "fail", vec |-> <<>>]

RECURSIVE DotProduct(_, _)
DotProduct(a, b) ==
    IF a = <<>> THEN 0 ELSE Head(a) * Head(b) + DotProduct(Tail(a), Tail(b))

\* cosineSimilarity as the exact fraction dot / sqrt(den2); it throws on
\* vectors of different lengths and is 0 when a norm is 0
cosineSimilarity_NoZeroCheck(a, b) ==
    IF Len(a) # Len(b) THEN [res |-> "die", dot |-> 0, den2 |-> 0]
    ELSE [res |-> IF DotProduct(a, a) * DotProduct(b, b) = 0 THEN "nan" ELSE "ok",
          dot |-> DotProduct(a, b),
          den2 |-> DotProduct(a, a) * DotProduct(b, b)]

cosineSimilarity(a, b) ==
    IF Len(a) # Len(b) THEN [res |-> "die", dot |-> 0, den2 |-> 0]
    ELSE IF DotProduct(a, a) * DotProduct(b, b) = 0
    THEN [res |-> "ok", dot |-> 0, den2 |-> 0]
    ELSE [res |-> "ok", dot |-> DotProduct(a, b),
          den2 |-> DotProduct(a, a) * DotProduct(b, b)]

\* threshold: number = 0.5, as the fraction n / d
DefaultThreshold == [n |-> 1, d |-> 2]

\* score >= threshold, for a score that is not negative
AtLeast(c, threshold) ==
    IF c.den2 = 0 THEN threshold.n = 0
    ELSE threshold.d * threshold.d * c.dot * c.dot
            >= threshold.n * threshold.n * c.den2

\* score >= 0.5
AtLeastHalf(c) == AtLeast(c, DefaultThreshold)

\* a.score > b.score, for scores that are not negative
ScoreGreater(a, b) ==
    IF a.den2 = 0 THEN FALSE
    ELSE IF b.den2 = 0 THEN a.dot > 0
    ELSE a.dot * a.dot * b.den2 > b.dot * b.dot * a.den2

\* Math.round(score * 100), the score in hundredths, for a score in [0, 1]
Hundredths(c) ==
    IF c.den2 = 0 THEN 0
    ELSE LET ks == {k \in 1..100 :
                     (2 * k - 1) * (2 * k - 1) * c.den2 <= 40000 * c.dot * c.dot}
         IN IF ks = {} THEN 0 ELSE CHOOSE k \in ks : \A j \in ks : j <= k

RECURSIVE InsertByScore_BeforeEqual(_, _)
InsertByScore_BeforeEqual(sorted, x) ==
    IF sorted = <<>> THEN <<x>>
    ELSE IF ~ScoreGreater(Head(sorted).score, x.score) THEN <<x>> \o sorted
    ELSE <<Head(sorted)>> \o InsertByScore_BeforeEqual(Tail(sorted), x)

\* Array.prototype.sort((a, b) => b.score - a.score), which is stable: x goes
\* after the elements that do not score less than it
RECURSIVE InsertByScore(_, _)
InsertByScore(sorted, x) ==
    IF sorted = <<>> THEN <<x>>
    ELSE IF ScoreGreater(x.score, Head(sorted).score) THEN <<x>> \o sorted
    ELSE <<Head(sorted)>> \o InsertByScore(Tail(sorted), x)

RECURSIVE SortByScore(_)
SortByScore(rs) ==
    IF rs = <<>> THEN <<>>
    ELSE InsertByScore(SortByScore(SubSeq(rs, 1, Len(rs) - 1)), rs[Len(rs)])

\* Array.prototype.slice(0, n)
Slice(rs, n) == SubSeq(rs, 1, IF Len(rs) < n THEN Len(rs) ELSE n)

Index == [emb |-> emb, embTable |-> embTable]

\* INSERT OR REPLACE INTO memory_embeddings, outside any Effect.try
storeBlockEmbedding(e, blockId, embedding) ==
    IF ~e.embTable THEN [e |-> e, res |-> "die"]
    ELSE [e |-> [e EXCEPT !.emb = Put(@, blockId, embedding)], res |-> "ok"]

\* The loop of ensureBlockEmbeddings from block i on.  existing is the set of
\* ids read before the loop; the gateway answers the first k calls in its
\* mode and rejects the later ones.
RECURSIVE EnsureLoop(_, _, _, _, _, _, _)
EnsureLoop(existing, e, list, i, mode, k, generated) ==
    IF i > Len(list) THEN [e |-> e, res |-> "ok", generated |-> generated]
    ELSE IF list[i].id \in existing
    THEN EnsureLoop(existing, e, list, i + 1, mode, k, generated)
    ELSE LET g == generateEmbedding(list[i].content,
                                    IF generated < k THEN mode ELSE "down")
         IN IF g.res = "fail"
            THEN [e |-> e, res |-> "fail", generated |-> generated]
            ELSE EnsureLoop(existing, storeBlockEmbedding(e, list[i].id, g.vec).e,
                            list, i + 1, mode, k, generated + 1)

ensureBlockEmbeddings_All(e, list, mode, k) ==
    IF ~e.embTable THEN [e |-> e, res |-> "die", generated |-> 0]
    ELSE EnsureLoop({}, e, list, 1, mode, k, 0)

ensureBlockEmbeddings(e, list, mode, k) ==
    IF ~e.embTable THEN [e |-> e, res |-> "die", generated |-> 0]
    ELSE EnsureLoop(DOMAIN e.emb, e, list, 1, mode, k, 0)

\* The loop of searchMemoryBlocks: the blocks that have an embedding, scored
\* against the query; "die" as soon as cosineSimilarity throws.
RECURSIVE ScoreLoop(_, _, _, _, _, _)
ScoreLoop(e, q, list, i, threshold, acc) ==
    IF i > Len(list) THEN [res |-> "ok", results |-> acc]
    ELSE IF list[i].id \notin DOMAIN e.emb
    THEN ScoreLoop(e, q, list, i + 1, threshold, acc)
    ELSE LET c == cosineSimilarity(q, e.emb[list[i].id])
         IN IF c.res = "die" THEN [res |-> "die", results |-> <<>>]
            ELSE ScoreLoop(e, q, list, i + 1, threshold,
                           IF AtLeast(c, threshold)
                           THEN Append(acc, [block |-> list[i], score |-> c])
                           ELSE acc)

searchMemoryBlocks(e, query, list, limit, threshold, mode) ==
    LET q == generateEmbedding(query, mode)
    IN IF q.res = "fail" THEN [res |-> "fail", results |-> <<>>]
       ELSE IF ~e.embTable THEN [res |-> "die", results |-> <<>>]
       ELSE LET scored == ScoreLoop(e, q.vec, list, 1, threshold, <<>>)
            IN IF scored.res = "die" THEN scored
               ELSE [res |-> "ok",
                     results |-> Slice(SortByScore(scored.results), limit)]

\* args.limit || 5
DefaultLimit == 5
LimitOrDefault(limit) == IF limit = 0 THEN DefaultLimit ELSE limit

RECURSIVE SelectSeq2(_, _, _)
SelectSeq2(list, sel, i) ==
    IF i > Len(list) THEN <<>>
    ELSE (IF list[i].id \in sel THEN <<list[i]>> ELSE <<>>)
         \o SelectSeq2(list, sel, i + 1)

\* args.blocks ? allBlocks.filter(b => args.blocks.includes(b.id)) : allBlocks
BlocksToSearch(all, sel) ==
    IF sel.given THEN SelectSeq2(all, sel.ids, 1) ELSE all

RECURSIVE TextMatches(_, _, _)
TextMatches(list, query, i) ==
    IF i > Len(list) THEN <<>>
    ELSE (IF Includes(ToLowerCase(list[i].content), query)
          THEN <<[block_id |-> list[i].id, label |-> list[i].label,
                  content |-> list[i].content, score |-> 100]>>
          ELSE <<>>)
         \o TextMatches(list, query, i + 1)

\* the text search of executeMemorySearch, scores in hundredths
textSearch(list, query, limit) ==
    Slice(TextMatches(list, ToLowerCase(query), 1), LimitOrDefault(limit))

SemanticResults(rs) ==
    [i \in 1..Len(rs) |->
        [block_id |-> rs[i].block.id, label |-> rs[i].block.label,
         content |-> rs[i].block.content, score |-> Hundredths(rs[i].score)]]

\* sub is how the semantic search ended, "none" when it was not tried
executeMemorySearch(st, e, query, sel, limit, useSemanticSearch, ord, mode, err) ==
    LET all == getAllBlocks(st, ord, err)
        blocksToSearch == BlocksToSearch(all.val, sel)
        sem == searchMemoryBlocks(e, query, blocksToSearch,
                                  LimitOrDefault(limit), DefaultThreshold, mode)
    IN IF all.res = "fail"
       THEN [st |-> all.st, res |-> "fail", results |-> <<>>, sub |-> "none"]
       ELSE IF ~useSemanticSearch
       THEN [st |-> all.st, res |-> "ok", sub |-> "none",
             results |-> textSearch(blocksToSearch, query, limit)]
       ELSE IF sem.res = "ok"
       THEN [st |-> all.st, res |-> "ok", sub |-> "ok",
             results |-> SemanticResults(sem.results)]
       ELSE IF sem.res = "fail"
       THEN [st |-> all.st, res |-> "ok", sub |-> "fail",
             results |-> textSearch(blocksToSearch, query, limit)]
       ELSE [st |-> all.st, res |-> "die", sub |-> "die", results |-> <<>>]

----------------------------------------------------------------------------
(* The summary ladder: recursive-summarization.ts                           *)
(*                                                                          *)
(* summaries is the table conversation_summaries_v2, row i having id i      *)
(* (INTEGER PRIMARY KEY AUTOINCREMENT, and no row is ever deleted);         *)
(* parent 0 stands for parent_summary_id NULL.                              *)

\* ids of the rows WHERE summary_level = level AND parent_summary_id IS NULL
Unconsolidated_AnyParent(rows, level) ==
    {i \in 1..Len(rows) : rows[i].level = level}

Unconsolidated(rows, level) ==
    {i \in 1..Len(rows) : rows[i].level = level /\ rows[i].parent = 0}

Min(a, b) == IF a < b THEN a ELSE b

\* The answers ORDER BY created_at ASC LIMIT k allows over the rows S: the
\* order of rows with equal created_at is not determined.
RECURSIVE OrderedLimit(_, _, _)
OrderedLimit(rows, S, k) ==
    IF k = 0 \/ S = {}
    THEN {<<>>}
    ELSE LET oldest == {x \in S : \A y \in S : rows[x].created_at <= rows[y].created_at}
         IN UNION {{<<x>> \o q : q \in OrderedLimit(rows, S \ {x}, k - 1)} : x \in oldest}

\* what a check that has nothing to promote leaves; step is where the caller
\* stands in check, create, mark; parent is the id create returned
Idle ==
    [needed |-> FALSE, level |-> 0, summaries |-> <<>>, step |-> "idle", parent |-> 0]

\* The results the loop of checkRecursiveSummarizationNeeded can return from
\* level on.
RECURSIVE CheckFrom_ThroughMaxLevel(_, _)
CheckFrom_ThroughMaxLevel(rows, level) ==
    IF level > maxLevel
    THEN {[Idle EXCEPT !.step = "checked"]}
    ELSE LET found == OrderedLimit(rows, Unconsolidated(rows, level),
                                   recursiveThreshold + 1)
         IN IF \E q \in found : Len(q) >= recursiveThreshold
            THEN {[needed |-> TRUE, level |-> level + 1,
                   summaries |-> Slice(q, recursiveThreshold),
                   step |-> "checked", parent |-> 0] : q \in found}
            ELSE CheckFrom_ThroughMaxLevel(rows, level + 1)

RECURSIVE CheckFrom(_, _)
CheckFrom(rows, level) ==
    IF level >= maxLevel
    THEN {[Idle EXCEPT !.step = "checked"]}
    ELSE LET found == OrderedLimit(rows, Unconsolidated(rows, level),
                                   recursiveThreshold + 1)
         IN IF \E q \in found : Len(q) >= recursiveThreshold
            THEN {[needed |-> TRUE, level |-> level + 1,
                   summaries |-> Slice(q, recursiveThreshold),
                   step |-> "checked", parent |-> 0] : q \in found}
            ELSE CheckFrom(rows, level + 1)

checkRecursiveSummarizationNeeded(rows) == CheckFrom(rows, 0)

\* INSERT INTO conversation_summaries_v2 (..., parent_summary_id, created_at)
\* VALUES (..., NULL, timestamp), after the LLM has answered
InsertSummary(rows, level, message_count, timestamp) ==
    Append(rows, [level |-> level, message_count |-> message_count,
                  parent |-> 0, created_at |-> timestamp])

\* summaries.reduce((sum, s) => sum + s.message_count, 0), inputs being the
\* ids of the summaries the caller passes
RECURSIVE totalMessages(_, _)
totalMessages(rows, inputs) ==
    IF inputs = <<>> THEN 0
    ELSE rows[Head(inputs)].message_count + totalMessages(rows, Tail(inputs))

\* messages is messages.length
createBaseSummary_InsertFirst(rows, messages, timestamp, llm) ==
    [rows |-> InsertSummary(rows, 0, messages, timestamp),
     res |-> IF llm = "fails" THEN "fail" ELSE "ok",
     id |-> IF llm = "fails" THEN 0 ELSE Len(rows) + 1]

createBaseSummary(rows, messages, timestamp, llm) ==
    IF llm = "fails" THEN [rows |-> rows, res |-> "fail", id |-> 0]
    ELSE [rows |-> InsertSummary(rows, 0, messages, timestamp), res |-> "ok",
          id |-> Len(rows) + 1]

createRecursiveSummary_CountsInputs(rows, inputs, targetLevel, timestamp, llm) ==
    IF llm = "fails" THEN [rows |-> rows, res |-> "fail", id |-> 0]
    ELSE [rows |-> InsertSummary(rows, targetLevel, Len(inputs), timestamp),
          res |-> "ok", id |-> Len(rows) + 1]

createRecursiveSummary(rows, inputs, targetLevel, timestamp, llm) ==
    IF llm = "fails" THEN [rows |-> rows, res |-> "fail", id |-> 0]
    ELSE [rows |-> InsertSummary(rows, targetLevel,
                                 totalMessages(rows, inputs), timestamp),
          res |-> "ok", id |-> Len(rows) + 1]

markSummariesConsolidated_MarksNone(rows, summaryIds, parentId) == rows

\* UPDATE ... SET parent_summary_id = parentId WHERE id = ?, for each id
markSummariesConsolidated(rows, summaryIds, parentId) ==
    [i \in 1..Len(rows) |->
        IF \E j \in 1..Len(summaryIds) : summaryIds[j] = i
        THEN [rows[i] EXCEPT !.parent = parentId]
        ELSE rows[i]]

----------------------------------------------------------------------------
(* Helpers of the actions *)

\* the orders ORDER BY updated_at DESC allows for the rows with ids in S
Orders(bl, S) ==
    {ord \in [1..Cardinality(S) -> S] :
        /\ \A i, j \in 1..Cardinality(S) : i # j => ord[i] # ord[j]
        /\ \A i, j \in 1..Cardinality(S) :
              i < j => bl[ord[i]].updated_at >= bl[ord[j]].updated_at}

\* the rows WHERE type = ? selects, all of them when the caller names no type
OfType(bl, type) ==
    {id \in DOMAIN bl : type = "undefined" \/ bl[id].type = type}

\* what is kept of the operation that ran last: its name, the block it was
\* about, how it ended, what it returned and, for memory_search, how the
\* semantic search ended
Last(op, id, res, out) ==
    [op |-> op, id |-> id, res |-> res, out |-> out, sub |-> "none"]

Bounded(bl) == \A id \in DOMAIN bl : Len(bl[id].content) <= MaxLen

\* the step of an operation of the block manager or of a memory tool, which
\* touches neither the embeddings nor the archival table
StoreStep(o, op, id) ==
    /\ Bounded(o.st.blocks)
    /\ blocks' = o.st.blocks
    /\ cache' = o.st.cache
    /\ last' = Last(op, id, o.res, o.val)
    /\ UNCHANGED <<emb, embTable, ai, now, archival, ladderVars, legacyVars>>

----------------------------------------------------------------------------
(* Actions *)

InitStore ==
    /\ blocks = EmptyMap
    /\ cache = EmptyMap
    /\ emb = EmptyMap
    /\ embTable = FALSE
    /\ ai = "up"
    /\ now = 0
    /\ archival = EmptyMap
    /\ last = Last("none", "", "ok", <<>>)

InitLadder ==
    /\ summaries = <<>>
    /\ promo = Idle

\* a table that does not exist
NoTable == [exists |-> FALSE, rows |-> <<>>]

\* memory_blocks created by initializeDatabase, no legacy store in use
InitLegacy ==
    /\ blocksTable = TRUE
    /\ agent_memory = NoTable
    /\ agent_memory_legacy_backup = NoTable
    /\ memoriesCache = {}

Init == InitStore /\ InitLadder /\ InitLegacy

Tick ==
    /\ now < MaxClock
    /\ now' = now + 1
    /\ UNCHANGED <<blocks, cache, emb, embTable, ai, archival, last, ladderVars, legacyVars>>

\* the gateway changes its behaviour; nothing of the program runs
SetGateway(mode) ==
    /\ mode # ai
    /\ ai' = mode
    /\ last' = Last("setGateway", "", "ok", <<>>)
    /\ UNCHANGED <<blocks, cache, emb, embTable, now, archival, ladderVars, legacyVars>>

InitializeEmbeddingsTables ==
    /\ embTable' = TRUE
    /\ last' = Last("initializeEmbeddingsTables", "", "ok", <<>>)
    /\ UNCHANGED <<blocks, cache, emb, ai, now, archival, ladderVars, legacyVars>>

\* a new MemoryBlockManagerLive on the same store
Open(err) ==
    /\ cache' = loadCache(Store, err)
    /\ last' = Last("open", "", "ok", <<>>)
    /\ UNCHANGED <<blocks, emb, embTable, ai, now, archival, ladderVars, legacyVars>>

GetBlock(id, err) ==
    StoreStep(getBlock(Store, id, err), "getBlock", id)

GetAllBlocks(type, ord, err) ==
    StoreStep(getAllBlocks(Store, ord, err), "getAllBlocks", "")

CreateBlock(id, label, content, type, err) ==
    StoreStep(createBlock(Store, id, label, content, type, now, err),
              "createBlock", id)

UpdateBlock(id, content, err) ==
    StoreStep(updateBlock(Store, id, content, now, err), "updateBlock", id)

DeleteBlock(id, err) ==
    StoreStep(deleteBlock(Store, id, err), "deleteBlock", id)

InsertContent(id, content, position, err) ==
    StoreStep(insertContent(Store, id, content, PositionOrEnd(position), now, err),
              "insertContent", id)

ReplaceContent(id, oldContent, newContent, err) ==
    StoreStep(replaceContent(Store, id, oldContent, newContent, now, err),
              "replaceContent", id)

RethinkBlock(id, newContent, err) ==
    StoreStep(rethinkBlock(Store, id, newContent, now, err), "rethinkBlock", id)

MemoryInsert(id, content, position, err) ==
    StoreStep(executeMemoryInsert(Store, id, content, position, now, err),
              "memory_insert", id)

MemoryReplace(id, oldContent, newContent, err) ==
    StoreStep(executeMemoryReplace(Store, id, oldContent, newContent, now, err),
              "memory_replace", id)

MemoryRethink(id, newContent, err) ==
    StoreStep(executeMemoryRethink(Store, id, newContent, now, err),
              "memory_rethink", id)

MemoryCreateBlock(id, label, content, type, err) ==
    StoreStep(executeMemoryCreateBlock(Store, id, label, content, type, now, err),
              "memory_create_block", id)

InsertArchival(content, rnd, err) ==
    LET o == insertArchival(archival, content, now, rnd, err)
    IN /\ Cardinality(DOMAIN o.arch) <= MaxArchival
       /\ archival' = o.arch
       /\ last' = Last("insertArchival", "", o.res, <<o.id>>)
       /\ UNCHANGED <<blocks, cache, emb, embTable, ai, now, ladderVars, legacyVars>>

\* ensureBlockEmbeddings on the blocks ord names, as the store holds them
EnsureBlockEmbeddings(ord, k) ==
    LET list == [i \in 1..Len(ord) |-> RowToBlock(ord[i], blocks[ord[i]])]
        o == ensureBlockEmbeddings(Index, list, ai, k)
    IN /\ emb' = o.e.emb
       /\ last' = Last("ensureBlockEmbeddings", "", o.res, <<o.generated>>)
       /\ UNCHANGED <<blocks, cache, embTable, ai, now, archival, ladderVars, legacyVars>>

MemorySearch(query, sel, limit, useSemanticSearch, ord, err) ==
    LET o == executeMemorySearch(Store, Index, query, sel, limit,
                                 useSemanticSearch, ord, ai, err)
    IN /\ blocks' = o.st.blocks
       /\ cache' = o.st.cache
       /\ last' = [Last("memory_search", "", o.res, o.results) EXCEPT !.sub = o.sub]
       /\ UNCHANGED <<emb, embTable, ai, now, archival, ladderVars, legacyVars>>

----------------------------------------------------------------------------
(* The block store and the memory tools on it *)

BlockIds == {"b1", "b2"}
TextBlock == "b1"
Labels == {"L1"}
Types == {"core", "archival", "undefined"}
Positions == {"start", "end", "undefined"}
Errs == {"none", "read", "write"}
Texts == {<<"A">>}
Patterns == {<<"A", "\n">>, <<"b">>}
News == {<<>>}

Next ==
    \/ Tick
    \/ \E err \in Errs : Open(err)
    \/ \E id \in BlockIds, err \in Errs : GetBlock(id, err)
    \/ \E type \in Types, err \in Errs :
          \E ord \in Orders(blocks, OfType(blocks, type)) : GetAllBlocks(type, ord, err)
    \/ \E id \in BlockIds, label \in Labels, content \in Texts, type \in Types, err \in Errs :
          CreateBlock(id, label, content, type, err)
    \/ \E id \in BlockIds, content \in Texts, err \in Errs : UpdateBlock(id, content, err)
    \/ \E id \in BlockIds, err \in Errs : DeleteBlock(id, err)
    \/ \E id \in BlockIds, content \in Texts, position \in Positions, err \in Errs :
          InsertContent(id, content, position, err)
    \/ \E id \in BlockIds, old \in Patterns, new \in News, err \in Errs :
          ReplaceContent(id, old, new, err)
    \/ \E id \in BlockIds, content \in Texts, err \in Errs : RethinkBlock(id, content, err)
    \/ \E id \in BlockIds, content \in Texts, position \in Positions, err \in Errs :
          MemoryInsert(id, content, position, err)
    \/ \E id \in BlockIds, old \in Patterns, new \in News, err \in Errs :
          MemoryReplace(id, old, new, err)
    \/ \E id \in BlockIds, content \in Texts, err \in Errs : MemoryRethink(id, content, err)
    \/ \E id \in BlockIds, label \in Labels, content \in Texts, type \in Types, err \in Errs :
          MemoryCreateBlock(id, label, content, type, err)

Spec == Init /\ [][Next]_vars

----------------------------------------------------------------------------
(* Claims about the block store and the memory tools, under Spec *)

StoreAfter == [blocks |-> blocks', cache |-> cache']

Failed(res) == res \in {"fail", "false"}

\* C3: after any operations that leave id absent, create_block(id, label,
\* content, type) followed by get_block(id) returns a block whose id, label,
\* content and type are the arguments, the type being core when none is
\* given; the same holds of memory_create_block.
C3_CreateThenGet ==
    [][(/\ last'.op \in {"createBlock", "memory_create_block"}
        /\ last'.res = "ok"
        /\ last'.id \notin DOMAIN blocks)
       => \A label \in Labels, content \in Texts, type \in Types, err \in Errs :
             (\/ CreateBlock(last'.id, label, content, type, err)
              \/ MemoryCreateBlock(last'.id, label, content, type, err))
             => \A gerr \in Errs :
                   LET g == getBlock(StoreAfter, last'.id, gerr)
                   IN /\ g.res = "ok"
                      /\ Len(g.val) = 1
                      /\ g.val[1].id = last'.id
                      /\ g.val[1].label = label
                      /\ g.val[1].content = content
                      /\ g.val[1].type = (IF type = "undefined" THEN "core" ELSE type)
                      /\ g.val[1].updated_at <= now']_vars

C3_Witness ==
    /\ last.op = "createBlock"
    /\ last.res = "ok"
    /\ last.id \in DOMAIN blocks
    /\ blocks[last.id].type = "archival"
    /\ DOMAIN blocks = BlockIds

\* C6 (as claimed): replace_content on an existing block whose content does
\* not contain old_substr returns a failure and writes nothing: the block's
\* content and updated_at, the cache and the embeddings stay as they were.
C6_ReplaceMissingFails ==
    [][(/\ last'.op \in {"replaceContent", "memory_replace"}
        /\ last'.id \in DOMAIN blocks)
       => \A old \in Patterns, new \in News, err \in Errs :
             (/\ ~Includes(blocks[last'.id].content, old)
              /\ \/ ReplaceContent(last'.id, old, new, err)
                 \/ MemoryReplace(last'.id, old, new, err))
             => /\ Failed(last'.res)
                /\ blocks' = blocks
                /\ last'.id \in DOMAIN cache => cache' = cache
                /\ emb' = emb]_vars

\* C7: insert_content, replace_content and rethink_block, and the tools on
\* them, called with an id no block has, fail and write nothing: no UPDATE is
\* issued, no block is created, the table and the cache stay as they were.
C7_MissingBlockNoWrite ==
    [][last'.id \notin DOMAIN blocks
       => LET id == last'.id
              NoWrite == Failed(last'.res) /\ blocks' = blocks /\ cache' = cache
              NoUpdate(o) == \A i \in 1..Len(o.stmts) : o.stmts[i] = "SELECT"
          IN /\ last'.op = "insertContent"
                => \A content \in Texts, position \in Positions, err \in Errs :
                      InsertContent(id, content, position, err)
                      => /\ NoWrite
                         /\ NoUpdate(insertContent(Store, id, content,
                                         PositionOrEnd(position), now, err))
             /\ last'.op = "replaceContent"
                => \A old \in Patterns, new \in News, err \in Errs :
                      ReplaceContent(id, old, new, err)
                      => /\ NoWrite
                         /\ NoUpdate(replaceContent(Store, id, old, new, now, err))
             /\ last'.op = "rethinkBlock"
                => \A content \in Texts, err \in Errs :
                      RethinkBlock(id, content, err)
                      => /\ NoWrite
                         /\ NoUpdate(rethinkBlock(Store, id, content, now, err))
             /\ last'.op = "memory_insert"
                => \A content \in Texts, position \in Positions, err \in Errs :
                      MemoryInsert(id, content, position, err)
                      => /\ NoWrite
                         /\ NoUpdate(executeMemoryInsert(Store, id, content,
                                         position, now, err))
             /\ last'.op = "memory_replace"
                => \A old \in Patterns, new \in News, err \in Errs :
                      MemoryReplace(id, old, new, err)
                      => /\ NoWrite
                         /\ NoUpdate(executeMemoryReplace(Store, id, old, new, now, err))
             /\ last'.op = "memory_rethink"
                => \A content \in Texts, err \in Errs :
                      MemoryRethink(id, content, err)
                      => /\ NoWrite
                         /\ NoUpdate(executeMemoryRethink(Store, id, content, now, err))]_vars

C7_Witness ==
    /\ last.op \in {"insertContent", "replaceContent", "rethinkBlock"}
    /\ last.res = "fail"
    /\ last.id \notin DOMAIN blocks
    /\ DOMAIN blocks # {}

\* C8: create_block on an id that is taken fails (memory_create_block returns
\* success: false unless its read throws) and leaves the block as it was: the
\* table is unchanged, a cache entry of the block is unchanged, and a cache
\* entry the tool's read adds is the row of the block.
C8_CreateExistingFails ==
    [][last'.id \in DOMAIN blocks
       => LET id == last'.id
          IN /\ last'.op = "createBlock"
                => \A label \in Labels, content \in Texts, type \in Types, err \in Errs :
                      CreateBlock(id, label, content, type, err)
                      => /\ last'.res = "fail"
                         /\ blocks' = blocks
                         /\ cache' = cache
             /\ last'.op = "memory_create_block"
                => \A label \in Labels, content \in Texts, type \in Types, err \in Errs :
                      MemoryCreateBlock(id, label, content, type, err)
                      => /\ Failed(last'.res)
                         /\ err = "none" => last'.res = "false"
                         /\ blocks' = blocks
                         /\ id \in DOMAIN cache => cache' = cache
                         /\ id \in DOMAIN cache'
                            => cache'[id] = RowToBlock(id, blocks[id])]_vars

C8_Witness ==
    /\ last.op \in {"createBlock", "memory_create_block"}
    /\ Failed(last.res)
    /\ last.id \in DOMAIN blocks
    /\ blocks[last.id].updated_at < now

----------------------------------------------------------------------------
(* The text of one block under insert_content and replace_content: SpecText *)

MaxArg == 2

Strings(alphabet, n) == UNION {[1..k -> alphabet] : k \in 0..n}

InsertTexts == Strings({"a", " ", "\n"}, MaxArg)

ReplaceTexts == Strings({"a", "$", "&"}, MaxArg)

OldTexts == {<<>>, <<"a">>, <<"$">>}

\* a store whose one block was created with some content
InitText ==
    /\ InitLadder
    /\ InitLegacy
    /\ \E content \in InsertTexts :
          LET o == createBlock([blocks |-> EmptyMap, cache |-> EmptyMap],
                               TextBlock, "L1", content, "core", 0, "none")
          IN blocks = o.st.blocks /\ cache = o.st.cache
    /\ emb = EmptyMap
    /\ embTable = FALSE
    /\ ai = "up"
    /\ now = 0
    /\ archival = EmptyMap
    /\ last = Last("createBlock", TextBlock, "ok", <<>>)

NextText ==
    \/ \E content \in InsertTexts, position \in Positions :
          InsertContent(TextBlock, content, position, "none")
    \/ \E old \in OldTexts, new \in ReplaceTexts :
          ReplaceContent(TextBlock, old, new, "none")

SpecText == InitText /\ [][NextText]_vars

StartsWith(s, x) == Len(x) <= Len(s) /\ SubSeq(s, 1, Len(x)) = x

EndsWith(s, x) == Len(x) <= Len(s) /\ SubSeq(s, Len(s) - Len(x) + 1, Len(s)) = x

NoEdgeWhitespace(s) ==
    s # <<>> /\ s[1] \notin Whitespace /\ s[Len(s)] \notin Whitespace

\* what claim C4 says of the content c after inserting x at position into old
InsertedAsClaimed(c, old, x, position) ==
    IF position = "start"
    THEN /\ StartsWith(c, x)
         /\ SubSeq(c, Len(x) + 1, Len(c)) = <<"\n">> \o old
    ELSE /\ EndsWith(c, x)
         /\ SubSeq(c, 1, Len(c) - Len(x)) = old \o <<"\n">>

\* C4 (as claimed): after insert_content(id, x, end) the content ends with x
\* and after insert_content(id, x, start) it begins with x, and in both cases
\* the rest is exactly the previous content, joined by exactly one newline.
C4_InsertJoinsWithNewline ==
    [][last'.op = "insertContent" /\ last'.res = "ok"
       => \A x \in InsertTexts, position \in Positions :
             InsertContent(TextBlock, x, position, "none")
             => InsertedAsClaimed(blocks'[TextBlock].content,
                                  blocks[TextBlock].content, x,
                                  PositionOrEnd(position))]_vars

\* C4 (amended): the content after insert_content is the previous content and
\* x joined by one newline, x last for end and first for start, trimmed of
\* leading and trailing whitespace; when the joined text neither begins nor
\* ends with whitespace, the content ends (begins) with x and the rest is
\* exactly the previous content joined by exactly one newline.
C4_InsertJoinsThenTrims ==
    [][last'.op = "insertContent" /\ last'.res = "ok"
       => \A x \in InsertTexts, position \in Positions :
             InsertContent(TextBlock, x, position, "none")
             => LET old == blocks[TextBlock].content
                    c == blocks'[TextBlock].content
                    joined == IF PositionOrEnd(position) = "start"
                              THEN x \o <<"\n">> \o old
                              ELSE old \o <<"\n">> \o x
                IN /\ c = Trim(joined)
                   /\ NoEdgeWhitespace(joined)
                      => InsertedAsClaimed(c, old, x, PositionOrEnd(position))]_vars

C4_Witness ==
    /\ last.op = "insertContent"
    /\ last.res = "ok"
    /\ LET c == blocks[TextBlock].content
       IN /\ Len(c) = 3
          /\ c[2] = "\n"
          /\ NoEdgeWhitespace(c)

\* new_substr put in place of the first occurrence of old_substr, as it is
VerbatimReplace(s, old, new) ==
    LET i == IndexOf(s, old)
    IN IF i = 0 THEN s
       ELSE SubSeq(s, 1, i - 1) \o new \o SubSeq(s, i + Len(old), Len(s))

\* C5 (as claimed): replace_content(id, old_substr, new_substr) on a block
\* whose content contains old_substr puts new_substr, verbatim, in place of
\* the first occurrence of old_substr and leaves the rest of the content alone.
C5_ReplaceVerbatim ==
    [][last'.op = "replaceContent" /\ last'.res = "ok"
       => \A old \in OldTexts, new \in ReplaceTexts :
             (/\ Includes(blocks[TextBlock].content, old)
              /\ ReplaceContent(TextBlock, old, new, "none"))
             => blocks'[TextBlock].content =
                   VerbatimReplace(blocks[TextBlock].content, old, new)]_vars

----------------------------------------------------------------------------
(* The mutating operations while the embedding gateway changes: SpecDegrade *)

Randoms == {"r1"}

WriteErrs == {"none", "write"}

NextDegrade ==
    \/ Tick
    \/ \E mode \in GatewayModes : SetGateway(mode)
    \/ \E label \in Labels, content \in Texts, type \in Types, err \in WriteErrs :
          CreateBlock(TextBlock, label, content, type, err)
    \/ \E content \in Texts, err \in WriteErrs : UpdateBlock(TextBlock, content, err)
    \/ \E err \in WriteErrs : DeleteBlock(TextBlock, err)
    \/ \E content \in Texts, position \in Positions, err \in WriteErrs :
          InsertContent(TextBlock, content, position, err)
    \/ \E old \in Patterns, new \in News, err \in WriteErrs :
          ReplaceContent(TextBlock, old, new, err)
    \/ \E content \in Texts, err \in WriteErrs : RethinkBlock(TextBlock, content, err)
    \/ \E content \in Texts, rnd \in Randoms, err \in WriteErrs :
          InsertArchival(content, rnd, err)

SpecDegrade == Init /\ [][NextDegrade]_vars

\* C1: each of create_block, update_block, insert_content, replace_content,
\* rethink_block and insert_archival succeeds and writes whenever its SQL
\* statements succeed (for create_block and insert_archival the id is free,
\* for insert, replace and rethink the block exists), whatever the state of
\* the embedding gateway: up, rejecting, answering without a vector or
\* answering with a vector of another length.
C1_WritesIgnoreGateway ==
    [][last'.op \in {"createBlock", "updateBlock", "insertContent",
                     "replaceContent", "rethinkBlock", "insertArchival"}
       => LET id == TextBlock
              present == id \in DOMAIN blocks
              Wrote(content) == /\ last'.res = "ok"
                                /\ id \in DOMAIN blocks'
                                /\ blocks'[id].content = content
                                /\ blocks'[id].updated_at = now
                                /\ cache'[id] = RowToBlock(id, blocks'[id])
          IN /\ ai \in GatewayModes
             /\ \A label \in Labels, content \in Texts, type \in Types :
                   (~present /\ CreateBlock(id, label, content, type, "none"))
                   => Wrote(content)
             /\ \A content \in Texts :
                   (present /\ UpdateBlock(id, content, "none")) => Wrote(content)
             /\ \A content \in Texts, position \in Positions :
                   (present /\ InsertContent(id, content, position, "none"))
                   => Wrote(Trim(InsertedContent(blocks[id].content, content,
                                                 PositionOrEnd(position))))
             /\ \A old \in Patterns, new \in News :
                   (present /\ ReplaceContent(id, old, new, "none"))
                   => Wrote(JsReplace(blocks[id].content, old, new))
             /\ \A content \in Texts :
                   (present /\ RethinkBlock(id, content, "none")) => Wrote(content)
             /\ \A content \in Texts, rnd \in Randoms :
                   (/\ <<"archival", now, rnd>> \notin DOMAIN archival
                    /\ InsertArchival(content, rnd, "none"))
                   => /\ last'.res = "ok"
                      /\ last'.out = <<(<<"archival", now, rnd>>)>>
                      /\ archival'[<<"archival", now, rnd>>].content = content]_vars

C1_Witness ==
    /\ ai = "down"
    /\ last.op = "insertContent"
    /\ last.res = "ok"
    /\ TextBlock \in DOMAIN blocks
    /\ Len(blocks[TextBlock].content) = 3
    /\ archival # EmptyMap

----------------------------------------------------------------------------
(* The blocks and their embeddings: SpecIndex *)

IndexTexts == {<<"A">>, <<"b">>}

Queries == {<<"a">>, <<"B">>}

Selections == {[given |-> FALSE, ids |-> {}], [given |-> TRUE, ids |-> {"b1"}]}

\* 0 stands for a call without a limit
Limits == {0, 1}

\* how many calls the gateway answers before it starts to reject
Answers == {1, 2}

\* the second block is only created and deleted
IndexCreates == {<<"b1", <<"A">> >>, <<"b1", <<"b">> >>, <<"b2", <<"b">> >>}

NextIndex ==
    \/ InitializeEmbeddingsTables
    \/ \E mode \in GatewayModes : SetGateway(mode)
    \/ \E c \in IndexCreates : CreateBlock(c[1], "L1", c[2], "undefined", "none")
    \/ \E content \in IndexTexts : UpdateBlock(TextBlock, content, "none")
    \/ \E id \in BlockIds : DeleteBlock(id, "none")
    \/ InsertContent(TextBlock, <<"A">>, "end", "none")
    \/ ReplaceContent(TextBlock, <<"\n", "A">>, <<>>, "none")
    \/ \E content \in IndexTexts : RethinkBlock(TextBlock, content, "none")
    \/ \E k \in Answers : \E ord \in Orders(blocks, DOMAIN blocks) :
          EnsureBlockEmbeddings(ord, k)
    \/ \E query \in Queries, sel \in Selections, limit \in Limits,
          useSemanticSearch \in BOOLEAN :
          \E ord \in Orders(blocks, DOMAIN blocks) :
             MemorySearch(query, sel, limit, useSemanticSearch, ord, "none")

SpecIndex == Init /\ [][NextIndex]_vars

\* C2 (as claimed): in every state that create_block, update_block,
\* insert_content, replace_content, rethink_block, delete_block and
\* ensure_block_embeddings can reach, the embedding row of an existing block
\* is absent or is the embedding of the block's current content.
C2_EmbeddingsCurrent ==
    \A id \in DOMAIN blocks :
       id \in DOMAIN emb
       => \E d \in {Dim, Dim + 1} : emb[id] = Embed(blocks[id].content, d)

\* C9 (as claimed): memory_search with useSemanticSearch = true does not fail
\* when its semantic search does: it returns the blocks among the selected
\* ones whose content contains the query, case ignored, each with score 1.0,
\* cut to the limit.
C9_SearchFallsBack ==
    [][last'.op = "memory_search" /\ last'.sub \in {"fail", "die"}
       => \A query \in Queries, sel \in Selections, limit \in Limits :
             \A ord \in Orders(blocks, DOMAIN blocks) :
                MemorySearch(query, sel, limit, TRUE, ord, "none")
                => LET all == [i \in 1..Len(ord) |-> RowToBlock(ord[i], blocks[ord[i]])]
                       n == IF limit = 0 THEN DefaultLimit ELSE limit
                       hits == SelectSeq(BlocksToSearch(all, sel),
                                 LAMBDA b : Includes(ToLowerCase(b.content),
                                                     ToLowerCase(query)))
                   IN /\ last'.res = "ok"
                      /\ Len(last'.out) = (IF Len(hits) < n THEN Len(hits) ELSE n)
                      /\ \A i \in 1..Len(last'.out) :
                            /\ last'.out[i].block_id = hits[i].id
                            /\ last'.out[i].content = hits[i].content
                            /\ last'.out[i].score = 100]_vars

----------------------------------------------------------------------------
(* The summary ladder: SpecLadder *)

Llm == {"answers", "fails"}

\* what the steps of the ladder leave alone
ladderFrame == <<blocks, cache, emb, embTable, ai, now, archival, legacyVars>>

CreateBaseSummaryOf(messages, llm) ==
    LET o == createBaseSummary(summaries, messages, now, llm)
    IN /\ Len(o.rows) <= MaxRows
       /\ summaries' = o.rows
       /\ last' = Last("createBaseSummary", "", o.res, <<o.id>>)
       /\ UNCHANGED <<promo, ladderFrame>>

\* a conversation of one message
CreateBaseSummary(llm) == CreateBaseSummaryOf(1, llm)

CheckPromotion ==
    /\ promo' \in checkRecursiveSummarizationNeeded(summaries)
    /\ last' = Last("checkRecursiveSummarizationNeeded", "", "ok", <<>>)
    /\ UNCHANGED <<summaries, ladderFrame>>

\* the caller passes what the check returned
CreateRecursiveSummary(llm) ==
    /\ promo.needed
    /\ promo.step = "checked"
    /\ LET o == createRecursiveSummary(summaries, promo.summaries, promo.level, now, llm)
       IN /\ Len(o.rows) <= MaxRows
          /\ summaries' = o.rows
          /\ promo' = IF o.res = "ok"
                      THEN [promo EXCEPT !.step = "created", !.parent = o.id]
                      ELSE promo
          /\ last' = Last("createRecursiveSummary", "", o.res, <<o.id>>)
    /\ UNCHANGED ladderFrame

MarkSummariesConsolidated ==
    /\ promo.step = "created"
    /\ summaries' = markSummariesConsolidated(summaries, promo.summaries, promo.parent)
    /\ promo' = Idle
    /\ last' = Last("markSummariesConsolidated", "", "ok", <<>>)
    /\ UNCHANGED ladderFrame

NextLadder ==
    \/ Tick
    \/ \E llm \in Llm : CreateBaseSummary(llm)
    \/ CheckPromotion
    \/ \E llm \in Llm : CreateRecursiveSummary(llm)
    \/ MarkSummariesConsolidated

SpecLadder == Init /\ [][NextLadder]_vars

Levels == 0..(maxLevel - 1)

Ready(L) == Cardinality(Unconsolidated(summaries, L)) >= recursiveThreshold

\* C10: check_promotion_needed answers needed exactly when some level L in
\* 0..max_level-1 has at least recursive_threshold rows without a parent;
\* then level is L+1 for the lowest such L and summaries are
\* recursive_threshold rows of level L without a parent, oldest first, no row
\* of that level without a parent that is left out being older than one
\* returned; no returned row has a parent.
C10_CheckPromotion ==
    last.op = "checkRecursiveSummarizationNeeded"
    => /\ promo.needed <=> \E L \in Levels : Ready(L)
       /\ promo.needed
          => LET L == CHOOSE l \in Levels : Ready(l) /\ \A k \in Levels : Ready(k) => l <= k
                 q == promo.summaries
                 pool == {i \in 1..Len(summaries) :
                            summaries[i].level = L /\ summaries[i].parent = 0}
             IN /\ promo.level = L + 1
                /\ Len(q) = recursiveThreshold
                /\ \A i \in 1..Len(q) :
                      /\ q[i] \in pool
                      /\ summaries[q[i]].parent = 0
                      /\ \A j \in 1..Len(q) :
                            i < j => /\ q[i] # q[j]
                                     /\ summaries[q[i]].created_at
                                           <= summaries[q[j]].created_at
                      /\ \A x \in pool :
                            (\A j \in 1..Len(q) : q[j] # x)
                            => summaries[q[i]].created_at <= summaries[x].created_at

\* a check that returns level 2 while a row of level 0 waits without a parent
\* and others have one
C10_Witness ==
    /\ last.op = "checkRecursiveSummarizationNeeded"
    /\ promo.needed
    /\ promo.level = 2
    /\ \E i \in 1..Len(summaries) : summaries[i].level = 0 /\ summaries[i].parent = 0
    /\ \E i \in 1..Len(summaries) : summaries[i].level = 0 /\ summaries[i].parent # 0

\* C12: when the LLM call inside create_base_summary or
\* create_recursive_summary fails, the operation fails and the summaries
\* table is as it was before the call.
C12_LlmFailureWritesNothing ==
    [][(\/ last'.op = "createBaseSummary" /\ CreateBaseSummary("fails")
        \/ last'.op = "createRecursiveSummary" /\ CreateRecursiveSummary("fails"))
       => /\ last'.res = "fail"
          /\ summaries' = summaries]_vars

\* a promotion whose LLM call failed, on a table that holds the rows it was
\* to summarize
C12_Witness ==
    /\ last.op = "createRecursiveSummary"
    /\ last.res = "fail"
    /\ promo.needed
    /\ promo.step = "checked"
    /\ Len(summaries) >= recursiveThreshold

\* the rows that name p as their parent
InputsOf(p) == {i \in 1..Len(summaries) : summaries[i].parent = p}

\* C13: a promotion (check, create_recursive_summary, mark_consolidated) that
\* fails or is abandoned at any step leaves every input row without a parent,
\* and retrying from the start ends as one successful promotion does: exactly
\* one parent row exists for the inputs and each input is consolidated into
\* it, so that after a mark every row above level 0 is the parent of
\* recursive_threshold inputs.
C13_PromotionRetrySafe ==
    /\ promo.step \in {"checked", "created"}
       => \A j \in 1..Len(promo.summaries) : summaries[promo.summaries[j]].parent = 0
    /\ last.op = "markSummariesConsolidated"
       => \A p \in 1..Len(summaries) :
             summaries[p].level >= 1
             => Cardinality(InputsOf(p)) = recursiveThreshold

\* C14: no summary above max_level is produced: check_promotion_needed never
\* returns a level above max_level, after any sequence of create_base_summary
\* and promotions driven by the check no row has a level above max_level, and
\* no row of level max_level is returned as an input of a promotion.
C14_NoLevelAboveMax ==
    /\ \A i \in 1..Len(summaries) : summaries[i].level <= maxLevel
    /\ promo.level <= maxLevel
    /\ \A j \in 1..Len(promo.summaries) :
          summaries[promo.summaries[j]].level < maxLevel

\* a check that finds nothing to promote while a row of level max_level has
\* no parent
C14_Witness ==
    /\ last.op = "checkRecursiveSummarizationNeeded"
    /\ ~promo.needed
    /\ \E i \in 1..Len(summaries) :
          summaries[i].level = maxLevel /\ summaries[i].parent = 0

----------------------------------------------------------------------------
(* The summary operations as any caller may invoke them: the four exported
   functions take their arguments from the caller, and nothing in them ties a
   call of markSummariesConsolidated to the check that went before. *)

\* the id lists a caller holds: recursiveThreshold distinct ids of rows
IdLists(rows) ==
    {q \in [1..recursiveThreshold -> 1..Len(rows)] :
        \A i, j \in 1..recursiveThreshold : i < j => q[i] < q[j]}

CallCreateBaseSummary(llm) ==
    LET o == createBaseSummary(summaries, 1, now, llm)
    IN /\ Len(o.rows) < MaxRows
       /\ summaries' = o.rows
       /\ last' = Last("createBaseSummary", "", o.res, <<o.id>>)
       /\ UNCHANGED <<promo, ladderFrame>>

CallCheck ==
    /\ promo' \in checkRecursiveSummarizationNeeded(summaries)
    /\ last' = Last("checkRecursiveSummarizationNeeded", "", "ok", <<>>)
    /\ UNCHANGED <<summaries, ladderFrame>>

CallCreateRecursiveSummary(inputs, targetLevel, llm) ==
    LET o == createRecursiveSummary(summaries, inputs, targetLevel, now, llm)
    IN /\ Len(o.rows) < MaxRows
       /\ summaries' = o.rows
       /\ last' = Last("createRecursiveSummary", "", o.res, <<o.id>>)
       /\ UNCHANGED <<promo, ladderFrame>>

\* summaryIds are rows of one level, parentId a row of the level above, as
\* any check and createRecursiveSummary before may have returned them
CallMarkSummariesConsolidated(summaryIds, parentId) ==
    /\ \A i \in 1..Len(summaryIds) :
          summaries[summaryIds[i]].level + 1 = summaries[parentId].level
    /\ summaries' = markSummariesConsolidated(summaries, summaryIds, parentId)
    /\ last' = Last("markSummariesConsolidated", "", "ok", <<parentId>>)
    /\ UNCHANGED <<promo, ladderFrame>>

NextCalls ==
    \/ \E llm \in Llm : CallCreateBaseSummary(llm)
    \/ CallCheck
    \/ \E inputs \in IdLists(summaries) \cup {<<>>},
          targetLevel \in 1..maxLevel, llm \in Llm :
          CallCreateRecursiveSummary(inputs, targetLevel, llm)
    \/ \E summaryIds \in IdLists(summaries), parentId \in 1..Len(summaries) :
          CallMarkSummariesConsolidated(summaryIds, parentId)

SpecCalls == Init /\ [][NextCalls]_vars

\* C11: in every sequence of create_base_summary, check_promotion_needed,
\* create_recursive_summary and mark_consolidated, a row whose
\* parent_summary_id is set keeps that same value in every later state: it
\* neither returns to no parent nor is pointed at another parent.
C11_ParentNeverChanges ==
    [][\A i \in 1..Len(summaries) :
          summaries[i].parent # 0
          => /\ i <= Len(summaries')
             /\ summaries'[i].parent = summaries[i].parent]_vars

----------------------------------------------------------------------------
(* The session flow the repository documents: createBaseSummary, then
   checkRecursiveSummarizationNeeded, then createRecursiveSummary when the
   check says so. The flow does not call markSummariesConsolidated. *)

\* no session is under way
SessionOver ==
    \/ last.op \notin {"createBaseSummary", "checkRecursiveSummarizationNeeded"}
    \/ last.op = "createBaseSummary" /\ last.res = "fail"
    \/ last.op = "checkRecursiveSummarizationNeeded" /\ ~promo.needed

SessionCreateBaseSummary(llm) == SessionOver /\ CreateBaseSummary(llm)

SessionCheck ==
    /\ last.op = "createBaseSummary"
    /\ last.res = "ok"
    /\ CheckPromotion

SessionCreateRecursiveSummary(llm) ==
    /\ last.op = "checkRecursiveSummarizationNeeded"
    /\ CreateRecursiveSummary(llm)

NextSession ==
    \/ Tick
    \/ \E llm \in Llm : SessionCreateBaseSummary(llm)
    \/ SessionCheck
    \/ \E llm \in Llm : SessionCreateRecursiveSummary(llm)

SpecSession == Init /\ [][NextSession]_vars

CountLevel(L) == Cardinality({i \in 1..Len(summaries) : summaries[i].level = L})

\* C15: following the documented session flow, every recursive_threshold
\* level-0 summaries produce exactly one level-1 summary: when a session has
\* run to its end, the number of level-1 rows is the number of level-0 rows
\* divided by recursive_threshold, rounded down.
C15_OnePromotionPerThreshold ==
    (/\ SessionOver
     /\ last.op \in {"checkRecursiveSummarizationNeeded", "createRecursiveSummary"}
     /\ last.res = "ok")
    => CountLevel(1) = CountLevel(0) \div recursiveThreshold

----------------------------------------------------------------------------
(* The legacy store agent_memory and its migration to memory blocks *)

\* the most rows agent_memory holds
MaxLegacy == 2

\* the most characters the blocks hold together
MaxContent == 24

\* CREATE TABLE IF NOT EXISTS agent_memory of the legacy manager
MemoryManager_initializeDatabase(legacy) ==
    IF legacy.exists THEN legacy ELSE [exists |-> TRUE, rows |-> <<>>]

\* INSERT OR REPLACE INTO agent_memory: the row of the purpose goes, the new
\* row is the latest
writeMemory(legacy, purpose, text, timestamp) ==
    IF ~legacy.exists
    THEN [table |-> legacy, res |-> "fail"]
    ELSE [table |-> [legacy EXCEPT !.rows =
                        Append(SelectSeq(@, LAMBDA r : r.purpose # purpose),
                               [purpose |-> purpose, text |-> text,
                                updated_at |-> timestamp])],
          res |-> "ok"]

\* memoriesCache.set(purpose, entry): a Map keeps one entry per key
memoriesCache_set(entries, purpose, text, updated_at) ==
    {e \in entries : e.purpose # purpose}
        \cup {[purpose |-> purpose, text |-> text, updated_at |-> updated_at]}

standardBlocks ==
    << [id |-> "human", label |-> "Human"],
       [id |-> "persona", label |-> "Persona"],
       [id |-> "context", label |-> "Context"] >>

\* the statements on memory_blocks throw while the table does not exist
TableErr(tableOk, kind) == IF tableOk THEN "none" ELSE kind

\* for (const [id, {label, content}] of Object.entries(standardBlocks)), from
\* the i-th on
RECURSIVE createStandardBlocks(_, _, _, _)
createStandardBlocks(st, i, timestamp, tableOk) ==
    IF i > Len(standardBlocks)
    THEN [st |-> st, res |-> "ok"]
    ELSE LET existing == getBlock(st, standardBlocks[i].id, TableErr(tableOk, "read"))
         IN IF existing.res = "fail"
            THEN [st |-> existing.st, res |-> "fail"]
            ELSE IF existing.val # <<>>
            THEN createStandardBlocks(existing.st, i + 1, timestamp, tableOk)
            ELSE LET c == createBlock(existing.st, standardBlocks[i].id,
                                      standardBlocks[i].label, <<>>, "core",
                                      timestamp, TableErr(tableOk, "write"))
                 IN IF c.res = "fail"
                    THEN [st |-> c.st, res |-> "fail"]
                    ELSE createStandardBlocks(c.st, i + 1, timestamp, tableOk)

\* /user|customer|person|human|client|people/
HumanWords ==
    { <<"u","s","e","r">>, <<"c","u","s","t","o","m","e","r">>,
      <<"p","e","r","s","o","n">>, <<"h","u","m","a","n">>,
      <<"c","l","i","e","n","t">>, <<"p","e","o","p","l","e">> }

\* /agent|persona|identity|role|assistant/
PersonaWords ==
    { <<"a","g","e","n","t">>, <<"p","e","r","s","o","n","a">>,
      <<"i","d","e","n","t","i","t","y">>, <<"r","o","l","e">>,
      <<"a","s","s","i","s","t","a","n","t">> }

\* String.prototype.match of an alternation of literals
Matches(s, words) == \E w \in words : Includes(s, w)

\* targetBlock that tries the persona words first
targetBlock_PersonaFirst(purpose) ==
    LET purposeLower == ToLowerCase(purpose)
    IN IF Matches(purposeLower, PersonaWords) THEN "persona"
       ELSE IF Matches(purposeLower, HumanWords) THEN "human"
       ELSE "context"

targetBlock(purpose) ==
    LET purposeLower == ToLowerCase(purpose)
    IN IF Matches(purposeLower, HumanWords) THEN "human"
       ELSE IF Matches(purposeLower, PersonaWords) THEN "persona"
       ELSE "context"

\* `**${purpose}**\n${text}`
formattedContent(purpose, text) ==
    <<"*", "*">> \o purpose \o <<"*", "*", "\n">> \o text

\* for (const row of memories), from the i-th row on; the insertContent of
\* row failAt fails in its UPDATE. A failure of the yielded effect ends the
\* generator: the catch of the loop sees exceptions thrown by the body's own
\* statements only, and with purposes that are strings none is thrown.
RECURSIVE migrateRows(_, _, _, _, _, _)
migrateRows(st, memories, i, failAt, timestamp, result) ==
    IF i > Len(memories)
    THEN [st |-> st, res |-> "ok", result |-> result]
    ELSE LET o == insertContent(st, targetBlock(memories[i].purpose),
                                formattedContent(memories[i].purpose, memories[i].text),
                                "end", timestamp,
                                IF i = failAt THEN "write" ELSE "none")
         IN IF o.res = "fail"
            THEN [st |-> o.st, res |-> "fail", result |-> result]
            ELSE migrateRows(o.st, memories, i + 1, failAt, timestamp,
                             [result EXCEPT !.migrated = @ + 1])

\* ALTER TABLE agent_memory RENAME TO agent_memory_legacy_backup throws when
\* the backup table exists, and the failure is ignored
migrateLegacyMemoriesToBlocks(st, legacy, backup, tableOk, timestamp, failAt) ==
    LET none == [total |-> 0, migrated |-> 0, skipped |-> 0, errors |-> <<>>]
        s == createStandardBlocks(st, 1, timestamp, tableOk)
        m == migrateRows(s.st, legacy.rows, 1, failAt, timestamp,
                         [none EXCEPT !.total = Len(legacy.rows)])
    IN IF ~legacy.exists
       THEN [st |-> st, legacy |-> legacy, backup |-> backup, res |-> "ok",
             result |-> none]
       ELSE IF s.res = "fail"
       THEN [st |-> s.st, legacy |-> legacy, backup |-> backup, res |-> "fail",
             result |-> none]
       ELSE IF m.res = "fail"
       THEN [st |-> m.st, legacy |-> legacy, backup |-> backup, res |-> "fail",
             result |-> m.result]
       ELSE IF m.result.migrated > 0 /\ ~backup.exists
       THEN [st |-> m.st, legacy |-> NoTable, backup |-> legacy, res |-> "ok",
             result |-> m.result]
       ELSE [st |-> m.st, legacy |-> legacy, backup |-> backup, res |-> "ok",
             result |-> m.result]

\* checkMigrationNeeded that lets a missing memory_blocks stand for data
checkMigrationNeeded_MissingIsData(legacy, bl, tableOk) ==
    LET hasLegacyData == legacy.exists /\ Len(legacy.rows) > 0
        hasNewData == ~tableOk \/ DOMAIN bl # {}
    IN hasLegacyData /\ ~hasNewData

\* checkMigrationNeeded that looks at agent_memory only
checkMigrationNeeded_LegacyOnly(legacy, bl, tableOk) ==
    legacy.exists /\ Len(legacy.rows) > 0

\* SELECT COUNT(*) throws on a table that does not exist, and orElseSucceed
\* makes that false
checkMigrationNeeded(legacy, bl, tableOk) ==
    LET hasLegacyData == legacy.exists /\ Len(legacy.rows) > 0
        hasNewData == tableOk /\ DOMAIN bl # {}
    IN hasLegacyData /\ ~hasNewData

\* rollbackMigration that leaves an agent_memory it finds in place
rollbackMigration_KeepsCurrent(legacy, backup) ==
    IF ~backup.exists \/ legacy.exists
    THEN [legacy |-> legacy, backup |-> backup, res |-> "fail"]
    ELSE [legacy |-> backup, backup |-> NoTable, res |-> "ok"]

\* rollbackMigration that drops agent_memory before it looks for the backup
rollbackMigration_DropFirst(legacy, backup) ==
    IF ~backup.exists
    THEN [legacy |-> NoTable, backup |-> backup, res |-> "fail"]
    ELSE [legacy |-> backup, backup |-> NoTable, res |-> "ok"]

rollbackMigration(legacy, backup) ==
    IF ~backup.exists
    THEN [legacy |-> legacy, backup |-> backup, res |-> "fail"]
    ELSE [legacy |-> backup, backup |-> NoTable, res |-> "ok"]

\* what the steps on the legacy store leave alone
legacyFrame == <<emb, embTable, ai, now, archival, ladderVars, memoriesCache>>

InitializeDatabase ==
    /\ blocksTable' = TRUE
    /\ last' = Last("initializeDatabase", "", "ok", <<>>)
    /\ UNCHANGED <<blocks, cache, agent_memory, agent_memory_legacy_backup, legacyFrame>>

InitializeLegacy ==
    /\ agent_memory' = MemoryManager_initializeDatabase(agent_memory)
    /\ last' = Last("MemoryManager.initializeDatabase", "", "ok", <<>>)
    /\ UNCHANGED <<blocks, cache, blocksTable, agent_memory_legacy_backup, legacyFrame>>

WriteMemory(purpose, text) ==
    LET o == writeMemory(agent_memory, purpose, text, now)
    IN /\ Len(o.table.rows) <= MaxLegacy
       /\ agent_memory' = o.table
       /\ memoriesCache' =
              IF o.res = "ok"
              THEN memoriesCache_set(memoriesCache, purpose, text, now)
              ELSE memoriesCache
       /\ last' = Last("writeMemory", "", o.res, <<>>)
       /\ UNCHANGED <<blocks, cache, blocksTable, agent_memory_legacy_backup,
                      emb, embTable, ai, now, archival, ladderVars>>

ContentSize(bl, ids) ==
    LET RECURSIVE Sum(_)
        Sum(S) == IF S = {} THEN 0
                  ELSE LET x == CHOOSE y \in S : TRUE
                       IN Len(bl[x].content) + Sum(S \ {x})
    IN Sum(ids)

MigrateLegacyMemoriesToBlocks(failAt) ==
    LET o == migrateLegacyMemoriesToBlocks(Store, agent_memory,
                 agent_memory_legacy_backup, blocksTable, now, failAt)
    IN /\ ContentSize(o.st.blocks, DOMAIN o.st.blocks) <= MaxContent
       /\ blocks' = o.st.blocks
       /\ cache' = o.st.cache
       /\ agent_memory' = o.legacy
       /\ agent_memory_legacy_backup' = o.backup
       /\ last' = Last("migrateLegacyMemoriesToBlocks", "", o.res, <<o.result>>)
       /\ UNCHANGED <<blocksTable, legacyFrame>>

CheckMigrationNeeded ==
    /\ last' = Last("checkMigrationNeeded", "", "ok",
                    <<checkMigrationNeeded(agent_memory, blocks, blocksTable)>>)
    /\ UNCHANGED <<blocks, cache, legacyVars, legacyFrame>>

RollbackMigration ==
    LET o == rollbackMigration(agent_memory, agent_memory_legacy_backup)
    IN /\ agent_memory' = o.legacy
       /\ agent_memory_legacy_backup' = o.backup
       /\ last' = [Last("rollbackMigration", "", o.res, <<>>) EXCEPT
                       !.sub = IF agent_memory.exists THEN "found" ELSE "none"]
       /\ UNCHANGED <<blocks, cache, blocksTable, legacyFrame>>

\* deleteBlock on a standard block
DeleteStandardBlock(id) ==
    LET o == deleteBlock(Store, id, TableErr(blocksTable, "write"))
    IN /\ blocks' = o.st.blocks
       /\ cache' = o.st.cache
       /\ last' = Last("deleteBlock", id, o.res, <<>>)
       /\ UNCHANGED <<legacyVars, legacyFrame>>

Purposes ==
    { <<"R","o","l","e","U","s","e","r">>, <<"r","o","l","e">>, <<"n">> }

LegacyTexts == {<<"t">>}

InitMigrate ==
    /\ InitStore
    /\ InitLadder
    /\ blocksTable = FALSE
    /\ agent_memory = NoTable
    /\ agent_memory_legacy_backup = NoTable
    /\ memoriesCache = {}

NextMigrate ==
    \/ InitializeDatabase
    \/ InitializeLegacy
    \/ \E purpose \in Purposes, text \in LegacyTexts : WriteMemory(purpose, text)
    \/ \E failAt \in 0..MaxLegacy : MigrateLegacyMemoriesToBlocks(failAt)
    \/ CheckMigrationNeeded
    \/ RollbackMigration
    \/ \E i \in 1..Len(standardBlocks) : DeleteStandardBlock(standardBlocks[i].id)

SpecMigrate == InitMigrate /\ [][NextMigrate]_vars

\* the result a migration returned
Result == last.out[1]

Migrated(l) == l.op = "migrateLegacyMemoriesToBlocks" /\ l.res = "ok"

\* the block the claim gives a purpose
ClaimedBlock(purpose) ==
    LET p == ToLowerCase(purpose)
    IN IF \E w \in HumanWords : Includes(p, w) THEN "human"
       ELSE IF \E w \in PersonaWords : Includes(p, w) THEN "persona"
       ELSE "context"

\* content after the rows from the i-th on that the claim gives block b have
\* been appended to it, each as insert_content at the end does
RECURSIVE AppendedTo(_, _, _, _)
AppendedTo(b, content, rows, i) ==
    IF i > Len(rows) THEN content
    ELSE AppendedTo(b,
            IF ClaimedBlock(rows[i].purpose) = b
            THEN Trim(content \o <<"\n">> \o <<"*", "*">> \o rows[i].purpose
                      \o <<"*", "*", "\n">> \o rows[i].text)
            ELSE content,
            rows, i + 1)

\* C16: a migration appends every agent_memory row to exactly one standard
\* block, chosen from the lower-cased purpose by first match: human when it
\* contains user, customer, person, human, client or people; else persona
\* when it contains agent, persona, identity, role or assistant; else
\* context. After a migration that returns, each standard block holds what it
\* held before followed by the rows chosen for it, and nothing else.
C16_RowsGoToTheirBlock ==
    [][(Migrated(last') /\ agent_memory.exists)
       => \A i \in 1..Len(standardBlocks) :
             LET b == standardBlocks[i].id
             IN /\ b \in DOMAIN blocks'
                /\ blocks'[b].content =
                      AppendedTo(b, IF b \in DOMAIN blocks THEN blocks[b].content ELSE <<>>,
                                 agent_memory.rows, 1)]_vars

\* a migration of two rows, one whose purpose matches both lists only after
\* lower-casing and went to human, one that went to persona
C16_Witness ==
    /\ Migrated(last)
    /\ Result.migrated = 2
    /\ "human" \in DOMAIN blocks
    /\ Includes(blocks["human"].content, <<"R","o","l","e","U","s","e","r">>)
    /\ "persona" \in DOMAIN blocks
    /\ Includes(blocks["persona"].content, <<"r","o","l","e">>)

\* C17: migration_needed returns true exactly when agent_memory exists with
\* at least one row and memory_blocks is empty or missing; a missing table
\* makes its query count as false and is no error.
C17_MigrationNeeded ==
    last.op = "checkMigrationNeeded"
    => /\ last.res = "ok"
       /\ Result = (/\ agent_memory.exists
                    /\ Len(agent_memory.rows) >= 1
                    /\ (~blocksTable \/ DOMAIN blocks = {}))

\* migration_needed answering true while memory_blocks does not exist
C17_Witness ==
    /\ last.op = "checkMigrationNeeded"
    /\ Result = TRUE
    /\ ~blocksTable

\* C18: in every state reached when a migration has just returned with
\* migrated >= 1, migration_needed returns false, whether or not the rename
\* to the backup table succeeded.
C18_NotNeededAfterMigration ==
    (Migrated(last) /\ Result.migrated >= 1)
    => ~checkMigrationNeeded(agent_memory, blocks, blocksTable)

\* a migration with migrated >= 1 whose rename failed: agent_memory is still
\* there with its rows
C18_Witness ==
    /\ Migrated(last)
    /\ Result.migrated >= 1
    /\ agent_memory.exists
    /\ Len(agent_memory.rows) >= 1
    /\ agent_memory_legacy_backup.exists

\* C19: after any prior sequence of operations, a migration that returns
\* migrated >= 1 ends with agent_memory renamed to the backup table:
\* agent_memory no longer exists and the backup holds exactly the rows
\* agent_memory held when the migration started.
C19_MigrationRenames ==
    [][(Migrated(last') /\ last'.out[1].migrated >= 1)
       => /\ ~agent_memory'.exists
          /\ agent_memory_legacy_backup' = agent_memory]_vars

\* C20: when appending one row fails during a migration, the failure is
\* recorded in errors, the row is counted as skipped, the remaining rows are
\* still processed, and the result has total = migrated + skipped with one
\* errors entry per skipped row.
C20_FailedAppendIsSkipped ==
    [][\A failAt \in 1..MaxLegacy :
          (/\ last'.op = "migrateLegacyMemoriesToBlocks"
           /\ agent_memory.exists
           /\ failAt <= Len(agent_memory.rows)
           /\ MigrateLegacyMemoriesToBlocks(failAt))
          => /\ last'.res = "ok"
             /\ last'.out[1].skipped = 1
             /\ Len(last'.out[1].errors) = 1
             /\ last'.out[1].total = last'.out[1].migrated + last'.out[1].skipped
             /\ last'.out[1].total = Len(agent_memory.rows)]_vars

\* C21: rollback_migration after a successful migration restores agent_memory
\* row for row: afterwards agent_memory holds exactly the (purpose, text,
\* updated_at) rows that were in the backup, the backup table no longer
\* exists, and an agent_memory table created since the migration is
\* discarded.
C21_RollbackRestores ==
    [][(/\ last'.op = "rollbackMigration"
        /\ agent_memory_legacy_backup.exists)
       => /\ last'.res = "ok"
          /\ agent_memory' = agent_memory_legacy_backup
          /\ ~agent_memory_legacy_backup'.exists]_vars

\* a rollback that found an agent_memory table in its way and ended with the
\* rows of the backup
C21_Witness ==
    /\ last.op = "rollbackMigration"
    /\ last.res = "ok"
    /\ last.sub = "found"
    /\ Len(agent_memory.rows) >= 1
    /\ ~agent_memory_legacy_backup.exists

\* C22: rollback_migration when no backup table exists fails and changes
\* nothing: agent_memory is not dropped and no table is renamed.
C22_RollbackWithoutBackup ==
    [][(/\ last'.op = "rollbackMigration"
        /\ ~agent_memory_legacy_backup.exists)
       => /\ last'.res = "fail"
          /\ agent_memory' = agent_memory
          /\ agent_memory_legacy_backup' = agent_memory_legacy_backup
          /\ blocks' = blocks]_vars

\* a rollback that failed and left the rows of agent_memory where they were
C22_Witness ==
    /\ last.op = "rollbackMigration"
    /\ last.res = "fail"
    /\ last.sub = "found"
    /\ Len(agent_memory.rows) >= 1

----------------------------------------------------------------------------
(* The export of the core blocks to agent_memory *)

\* String.prototype.replace(/\s+/g, '_'): every run of whitespace becomes one
\* underscore
RECURSIVE ReplaceWhitespaceRuns(_)
ReplaceWhitespaceRuns(s) ==
    IF s = <<>> THEN <<>>
    ELSE IF Head(s) \in Whitespace
    THEN <<"_">> \o ReplaceWhitespaceRuns(TrimStart(s))
    ELSE <<Head(s)>> \o ReplaceWhitespaceRuns(Tail(s))

\* block.label.toLowerCase().replace(/\s+/g, '_')
exportPurpose(label) == ReplaceWhitespaceRuns(ToLowerCase(label))

\* INSERT OR REPLACE INTO agent_memory with the updated_at given: the row of
\* the purpose goes, the new row takes its place in updated_at order
upsertMemory(rows, purpose, text, updated_at) ==
    LET others == SelectSeq(rows, LAMBDA r : r.purpose # purpose)
    IN SelectSeq(others, LAMBDA r : r.updated_at <= updated_at)
       \o <<[purpose |-> purpose, text |-> text, updated_at |-> updated_at]>>
       \o SelectSeq(others, LAMBDA r : r.updated_at > updated_at)

\* for (const block of blocks), from the i-th block on
RECURSIVE exportRows(_, _, _)
exportRows(rows, list, i) ==
    IF i > Len(list) THEN rows
    ELSE exportRows(upsertMemory(rows, exportPurpose(list[i].label),
                                 list[i].content, list[i].updated_at),
                    list, i + 1)

\* exportBlocksToLegacy that reads the blocks of every type; ord orders them all
exportBlocksToLegacy_AllTypes(st, legacy, ord, err) ==
    LET all == getAllBlocks(st, ord, err)
        table == MemoryManager_initializeDatabase(legacy)
    IN IF all.res = "fail"
       THEN [st |-> all.st, legacy |-> legacy, res |-> "fail", count |-> 0]
       ELSE [st |-> all.st,
             legacy |-> [table EXCEPT !.rows = exportRows(@, all.val, 1)],
             res |-> "ok", count |-> Len(all.val)]

\* ord is an order ORDER BY updated_at DESC allows for the rows the query
\* selects
exportBlocksToLegacy(st, legacy, ord, err) ==
    LET all == getAllBlocks(st, SelectSeq(ord, LAMBDA id : st.blocks[id].type = "core"), err)
        table == MemoryManager_initializeDatabase(legacy)
    IN IF all.res = "fail"
       THEN [st |-> all.st, legacy |-> legacy, res |-> "fail", count |-> 0]
       ELSE [st |-> all.st,
             legacy |-> [table EXCEPT !.rows = exportRows(@, all.val, 1)],
             res |-> "ok", count |-> Len(all.val)]

ExportBlocksToLegacy(ord, err) ==
    LET o == exportBlocksToLegacy(Store, agent_memory, ord, err)
    IN /\ cache' = o.st.cache
       /\ agent_memory' = o.legacy
       /\ last' = Last("exportBlocksToLegacy", "", o.res, <<o.count>>)
       /\ UNCHANGED <<blocks, blocksTable, agent_memory_legacy_backup, legacyFrame>>

ExportLabels == {<<"A">>, <<"a">>, <<"A", " ", " ", "B">>}

ExportTypes == {"core", "archival"}

ExportCreates == {<<"b1", <<"A">> >>, <<"b2", <<"b">> >>}

NextExport ==
    \/ Tick
    \/ \E c \in ExportCreates, label \in ExportLabels, type \in ExportTypes :
          CreateBlock(c[1], label, c[2], type, "none")
    \/ \E id \in BlockIds : DeleteBlock(id, "none")
    \/ \E ord \in Orders(blocks, DOMAIN blocks), err \in {"none", "read"} :
          ExportBlocksToLegacy(ord, err)

SpecExport == Init /\ [][NextExport]_vars

CoreBlocks(bl) == {id \in DOMAIN bl : bl[id].type = "core"}

RowsOf(table) == {table.rows[i] : i \in 1..Len(table.rows)}

Exported(l) == l.op = "exportBlocksToLegacy" /\ l.res = "ok"

\* the purpose the claim gives a label: lower-cased, each space an underscore
ClaimedPurpose(label) ==
    [i \in 1..Len(label) |->
        IF label[i] = " " THEN "_" ELSE LowerChar(label[i])]

\* C23 as stated: export_blocks_to_kv returns the number of core blocks, and
\* afterwards agent_memory holds, for every core block, a row with purpose =
\* the lower-cased label with spaces replaced by underscores, text = the
\* block's content and updated_at = the block's updated_at; archival blocks
\* are not exported and the blocks table is unchanged.
C23_ExportRowPerBlock ==
    [][Exported(last')
       => /\ last'.out[1] = Cardinality(CoreBlocks(blocks))
          /\ blocks' = blocks
          /\ \A id \in CoreBlocks(blocks) :
                [purpose |-> ClaimedPurpose(blocks[id].label),
                 text |-> blocks[id].content,
                 updated_at |-> blocks[id].updated_at] \in RowsOf(agent_memory')]_vars

\* C23 as the code has it: export_blocks_to_kv returns the number of core
\* blocks and leaves the blocks table unchanged; afterwards agent_memory
\* holds, for every core block, exactly one row whose purpose is the
\* lower-cased label with every run of whitespace replaced by one underscore,
\* and that row carries the content and updated_at of a core block with that
\* purpose (of the block itself when no other core block has the purpose);
\* every other row is a row agent_memory held before, so no archival block is
\* exported.
C23_ExportUpsertsPerPurpose ==
    [][Exported(last')
       => /\ last'.out[1] = Cardinality(CoreBlocks(blocks))
          /\ blocks' = blocks
          /\ \A id \in CoreBlocks(blocks) :
                LET mine == {r \in RowsOf(agent_memory') :
                               r.purpose = exportPurpose(blocks[id].label)}
                IN /\ Cardinality(mine) = 1
                   /\ \A r \in mine :
                         \E c \in CoreBlocks(blocks) :
                            /\ exportPurpose(blocks[c].label) = r.purpose
                            /\ r.text = blocks[c].content
                            /\ r.updated_at = blocks[c].updated_at
          /\ \A r \in RowsOf(agent_memory') :
                \/ \E id \in CoreBlocks(blocks) :
                      r.purpose = exportPurpose(blocks[id].label)
                \/ r \in RowsOf(agent_memory)]_vars

\* an export of two core blocks whose labels give one purpose: the table ends
\* with one row for the two
C23_Witness ==
    /\ Exported(last)
    /\ last.out[1] = 2
    /\ Cardinality(CoreBlocks(blocks)) = 2
    /\ \A id \in CoreBlocks(blocks) : exportPurpose(blocks[id].label) = <<"a">>
    /\ \E id \in CoreBlocks(blocks) : blocks[id].content = <<"A">>
    /\ \E id \in CoreBlocks(blocks) : blocks[id].content = <<"b">>
    /\ Cardinality({r \in RowsOf(agent_memory) : r.purpose = <<"a">>}) = 1

----------------------------------------------------------------------------
(* The legacy key-value store: MemoryManagerLive of src/memory/memory.ts.   *)
(* A statement on agent_memory throws while the table does not exist, and  *)
(* err = "sql" is a statement that throws for any other reason.            *)

RowsFor(table, purpose) == {r \in RowsOf(table) : r.purpose = purpose}

\* memoriesCache.get(purpose), then SELECT ... WHERE purpose = ?
readMemory(legacy, entries, purpose, err) ==
    LET cached == {e \in entries : e.purpose = purpose}
        found == RowsFor(legacy, purpose)
    IN IF cached # {}
       THEN [cache |-> entries, res |-> "ok",
             out |-> <<(CHOOSE e \in cached : TRUE).text>>]
       ELSE IF ~legacy.exists \/ err = "sql"
       THEN [cache |-> entries, res |-> "fail", out |-> <<>>]
       ELSE IF found = {}
       THEN [cache |-> entries, res |-> "ok", out |-> <<>>]
       ELSE LET row == CHOOSE r \in found : TRUE
            IN [cache |-> memoriesCache_set(entries, purpose, row.text,
                                            row.updated_at),
                res |-> "ok", out |-> <<row.text>>]

deleteMemory_KeepsCache(legacy, entries, purpose, err) ==
    IF ~legacy.exists \/ err = "sql"
    THEN [table |-> legacy, cache |-> entries, res |-> "fail"]
    ELSE [table |-> [legacy EXCEPT !.rows =
                        SelectSeq(@, LAMBDA r : r.purpose # purpose)],
          cache |-> entries,
          res |-> "ok"]

\* DELETE FROM agent_memory WHERE purpose = ?, then memoriesCache.delete
deleteMemory(legacy, entries, purpose, err) ==
    IF ~legacy.exists \/ err = "sql"
    THEN [table |-> legacy, cache |-> entries, res |-> "fail"]
    ELSE [table |-> [legacy EXCEPT !.rows =
                        SelectSeq(@, LAMBDA r : r.purpose # purpose)],
          cache |-> {e \in entries : e.purpose # purpose},
          res |-> "ok"]

\* SELECT ... FROM agent_memory, memoriesCache.clear(), one set per row
loadMemories(legacy, entries, err) ==
    IF ~legacy.exists \/ err = "sql"
    THEN [cache |-> entries, res |-> "fail"]
    ELSE [cache |-> RowsOf(legacy), res |-> "ok"]

memoryFrame ==
    <<blocks, cache, blocksTable, agent_memory_legacy_backup,
      emb, embTable, ai, now, archival, ladderVars>>

\* the layer is built again (the object restarts): a new, empty Map
MemoryManagerLive ==
    /\ memoriesCache' = {}
    /\ last' = Last("MemoryManagerLive", "", "ok", <<>>)
    /\ UNCHANGED <<agent_memory, memoryFrame>>

ReadMemory(purpose, err) ==
    LET o == readMemory(agent_memory, memoriesCache, purpose, err)
    IN /\ memoriesCache' = o.cache
       /\ last' = Last("readMemory", "", o.res, <<purpose>> \o o.out)
       /\ UNCHANGED <<agent_memory, memoryFrame>>

DeleteMemory(purpose, err) ==
    LET o == deleteMemory(agent_memory, memoriesCache, purpose, err)
    IN /\ agent_memory' = o.table
       /\ memoriesCache' = o.cache
       /\ last' = Last("deleteMemory", "", o.res, <<purpose>>)
       /\ UNCHANGED memoryFrame

LoadMemories(err) ==
    LET o == loadMemories(agent_memory, memoriesCache, err)
    IN /\ memoriesCache' = o.cache
       /\ last' = Last("loadMemories", "", o.res, <<>>)
       /\ UNCHANGED <<agent_memory, memoryFrame>>

MemoryPurposes == {<<"r","o","l","e">>, <<"n">>, <<"g">>}

MemoryTexts == {<<"t">>, <<"u">>}

SqlErrs == {"none", "sql"}

NextMemory ==
    \/ Tick
    \/ InitializeLegacy
    \/ MemoryManagerLive
    \/ \E purpose \in MemoryPurposes, text \in MemoryTexts :
          WriteMemory(purpose, text)
    \/ \E purpose \in MemoryPurposes, err \in SqlErrs : ReadMemory(purpose, err)
    \/ \E purpose \in MemoryPurposes, err \in SqlErrs :
          DeleteMemory(purpose, err)
    \/ \E err \in SqlErrs : LoadMemories(err)

SpecMemory == Init /\ [][NextMemory]_vars

\* the store seen as a map: the (purpose, text) pairs of the table
Pairs(table) == {<<r.purpose, r.text>> : r \in RowsOf(table)}

OnePerPurpose(entries) ==
    \A e1, e2 \in entries : e1.purpose = e2.purpose => e1 = e2

\* C24: the key-value store is a map. The table is the map: a write that
\* completes puts its (purpose, text) in place of whatever the purpose had, a
\* delete that completes removes the purpose and nothing else, a read and a
\* load change nothing, and a read that completes returns the text the map
\* holds for the purpose, or nothing when it holds none. The table and the
\* cache never hold two entries of one purpose, and every cache entry is the
\* row of the table, so the cached answer is the table's answer.
C24_StoreIsAMap ==
    [][ /\ (last'.op = "writeMemory" /\ last'.res = "ok") =>
              \A purpose \in MemoryPurposes, text \in MemoryTexts :
                 WriteMemory(purpose, text) =>
                    Pairs(agent_memory') =
                       {p \in Pairs(agent_memory) : p[1] # purpose}
                           \cup {<<purpose, text>>}
        /\ (last'.op = "deleteMemory" /\ last'.res = "ok") =>
              Pairs(agent_memory') =
                 {p \in Pairs(agent_memory) : p[1] # last'.out[1]}
        /\ last'.op \in {"readMemory", "loadMemories", "MemoryManagerLive"} =>
              agent_memory' = agent_memory
        /\ (last'.op = "readMemory" /\ last'.res = "ok") =>
              LET held == {p \in Pairs(agent_memory) : p[1] = last'.out[1]}
              IN IF held = {}
                 THEN Len(last'.out) = 1
                 ELSE /\ Len(last'.out) = 2
                      /\ <<last'.out[1], last'.out[2]>> \in held
        /\ last'.res = "fail" => agent_memory' = agent_memory
        /\ Len(agent_memory'.rows) = Cardinality(RowsOf(agent_memory'))
        /\ OnePerPurpose(RowsOf(agent_memory'))
        /\ OnePerPurpose(memoriesCache')
        /\ memoriesCache' \subseteq RowsOf(agent_memory') ]_vars

\* a read answered from the cache returns the second text written for a
\* purpose while another purpose is stored beside it
C24_Witness ==
    /\ last.op = "readMemory"
    /\ last.res = "ok"
    /\ last.out = << <<"n">>, <<"u">> >>
    /\ Len(agent_memory.rows) = 2
    /\ \E r \in RowsOf(agent_memory) : r.purpose = <<"n">> /\ r.updated_at > 0
    /\ \E e \in memoriesCache : e.purpose = <<"n">>

----------------------------------------------------------------------------
(* searchMemoryBlocks called with lists, limits and thresholds of its own:  *)
(* SpecSearch                                                               *)

\* the lists of stored blocks a caller can pass: any blocks, in any order
Arrangements(bl) ==
    UNION {{ord \in [1..n -> DOMAIN bl] :
               \A i, j \in 1..n : i # j => ord[i] # ord[j]} :
           n \in 0..Cardinality(DOMAIN bl)}

SearchMemoryBlocks(query, ord, limit, threshold) ==
    LET list == [i \in 1..Len(ord) |-> RowToBlock(ord[i], blocks[ord[i]])]
        o == searchMemoryBlocks(Index, query, list, limit, threshold, ai)
    IN /\ last' = Last("searchMemoryBlocks", "", o.res,
                       <<[query |-> query, ord |-> ord, limit |-> limit,
                          threshold |-> threshold], o.results>>)
       /\ UNCHANGED <<blocks, cache, emb, embTable, ai, now, archival,
                      ladderVars, legacyVars>>

SearchCreates ==
    {<<"b1", <<"a">> >>, <<"b2", <<"a", "b">> >>, <<"b3", <<"b">> >>}

SearchQueries == {<<"a">>, <<"a", "b">>}

SearchLimits == 0..2

Thresholds == {[n |-> 0, d |-> 1], DefaultThreshold, [n |-> 3, d |-> 4]}

NextSearch ==
    \/ InitializeEmbeddingsTables
    \/ \E mode \in {"up", "down"} : SetGateway(mode)
    \/ \E c \in SearchCreates : CreateBlock(c[1], "L1", c[2], "undefined", "none")
    \/ \E c \in SearchCreates : DeleteBlock(c[1], "none")
    \/ \E k \in {1, 3} : \E ord \in Orders(blocks, DOMAIN blocks) :
          EnsureBlockEmbeddings(ord, k)
    \/ \E query \in SearchQueries, limit \in SearchLimits,
          threshold \in Thresholds :
          \E ord \in Arrangements(blocks) :
             SearchMemoryBlocks(query, ord, limit, threshold)

SpecSearch == Init /\ [][NextSearch]_vars

\* what C25 says search_blocks returns for a query vector q, a list, a limit
\* and a threshold: place k of the answer holds the input block that k - 1
\* of the qualifying input blocks come before, by a greater score or by an
\* equal score and an earlier place in the input
ClaimedResults(results, q, list, limit, threshold) ==
    LET score(i) == cosineSimilarity(q, emb[list[i].id])
        Q == {i \in 1..Len(list) :
                 /\ list[i].id \in DOMAIN emb
                 /\ AtLeast(score(i), threshold)}
        Before(j, i) ==
            \/ ScoreGreater(score(j), score(i))
            \/ /\ ~ScoreGreater(score(i), score(j))
               /\ j < i
        rank(i) == Cardinality({j \in Q : Before(j, i)}) + 1
    IN /\ Len(results) = Min(limit, Cardinality(Q))
       /\ \A i \in Q :
             rank(i) <= limit =>
                results[rank(i)] = [block |-> list[i], score |-> score(i)]
       /\ \A k \in 1..Len(results) :
             /\ results[k].block.id \in DOMAIN emb
             /\ \E i \in 1..Len(list) : results[k].block = list[i]

\* C25: a search that returns, returns exactly the first `limit` of the input
\* blocks that have a stored embedding and score at least the threshold,
\* ordered by score descending with equal scores in input order; a block
\* without a stored embedding never appears and every returned block is one
\* of the input blocks.
C25_SearchReturnsTopByScore ==
    (last.op = "searchMemoryBlocks" /\ last.res = "ok") =>
        LET args == last.out[1]
        IN ClaimedResults(
              last.out[2], generateEmbedding(args.query, ai).vec,
              [i \in 1..Len(args.ord) |->
                  RowToBlock(args.ord[i], blocks[args.ord[i]])],
              args.limit, args.threshold)

\* a search for "ab" with limit 2 among three indexed blocks: the exact match
\* first, then of the two blocks that score the same the one that came first
\* in the input
C25_Witness ==
    /\ last.op = "searchMemoryBlocks"
    /\ last.res = "ok"
    /\ DOMAIN emb = {"b1", "b2", "b3"}
    /\ emb["b1"] = Embed(<<"a">>, Dim)
    /\ emb["b3"] = Embed(<<"b">>, Dim)
    /\ last.out[1].ord = <<"b3", "b2", "b1">>
    /\ Len(last.out[2]) = 2
    /\ last.out[2][1].block.id = "b2"
    /\ last.out[2][2].block.id = "b3"

----------------------------------------------------------------------------
(* The embedding rows that block writes are said to leave: SpecIndex *)

\* C26 (as claimed): with the embeddings table in place and the gateway
\* answering, a createBlock or an updateBlock that completes leaves a row for
\* the block that holds the embedding of the content written; with the
\* gateway rejecting, a createBlock that completes leaves no row for its id.
C26_WriteLeavesEmbedding ==
    [][ (last'.op \in {"createBlock", "updateBlock"} /\ last'.res = "ok") =>
           /\ (embTable /\ ai = "up") =>
                 /\ last'.id \in DOMAIN emb'
                 /\ emb'[last'.id] = Embed(blocks'[last'.id].content, Dim)
           /\ (ai = "down" /\ last'.op = "createBlock") =>
                 last'.id \notin DOMAIN emb' ]_vars

\* C27 (as claimed): a deleteBlock that completes leaves no embedding row for
\* its id.
C27_DeleteRemovesEmbedding ==
    [][ (last'.op = "deleteBlock" /\ last'.res = "ok") =>
           last'.id \notin DOMAIN emb' ]_vars

\* C28 (as claimed): every vector stored in memory_embeddings has the length
\* of the embedding model, EMBEDDING_DIMENSIONS; an answer of another length
\* makes generateEmbedding fail and nothing is stored.
C28_StoredVectorsHaveDim ==
    \A id \in DOMAIN emb : Len(emb[id]) = Dim

\* C29: ensureBlockEmbeddings stores an embedding for exactly the input
\* blocks that had no row, leaves every row that existed as it was, and
\* returns how many it generated; when a generation fails part-way the rows
\* stored before the failure remain; and a call that follows a call that
\* succeeded, on the same blocks, generates nothing and returns 0.
C29_EnsureFillsTheMissing ==
    [][ last'.op = "ensureBlockEmbeddings" =>
           \A k \in Answers : \A ord \in Orders(blocks, DOMAIN blocks) :
              EnsureBlockEmbeddings(ord, k) =>
                 LET ids == {ord[i] : i \in 1..Len(ord)}
                     missing == ids \ DOMAIN emb
                     vec(id) == generateEmbedding(blocks[id].content, ai).vec
                 IN /\ \A id \in DOMAIN emb :
                          id \in DOMAIN emb' /\ emb'[id] = emb[id]
                    /\ \A id \in DOMAIN emb' \ DOMAIN emb :
                          id \in missing /\ emb'[id] = vec(id)
                    /\ last'.res = "ok" =>
                          /\ DOMAIN emb' = DOMAIN emb \cup ids
                          /\ last'.out = <<Cardinality(missing)>>
                    /\ last'.res = "fail" =>
                          \E i \in 1..Len(ord) :
                             /\ ord[i] \in missing
                             /\ ord[i] \notin DOMAIN emb'
                             /\ \A j \in 1..(i - 1) : ord[j] \in DOMAIN emb'
                    /\ (last.op = "ensureBlockEmbeddings" /\ last.res = "ok") =>
                          /\ last'.res = "ok"
                          /\ last'.out = <<0>>
                          /\ emb' = emb ]_vars

\* a call that generated one embedding and left the other block's row, which
\* is the embedding of content the block no longer has, as it was
C29_Witness ==
    /\ last.op = "ensureBlockEmbeddings"
    /\ last.res = "ok"
    /\ last.out = <<1>>
    /\ DOMAIN blocks = {"b1", "b2"}
    /\ DOMAIN emb = {"b1", "b2"}
    /\ emb["b1"] # Embed(blocks["b1"].content, Dim)
    /\ emb["b2"] = Embed(blocks["b2"].content, Dim)

----------------------------------------------------------------------------
(* The ids insertArchival builds: SpecArchival.  A draw of Math.random() is *)
(* the sequence of its base-36 digits after the point, none for 0.          *)

\* Number.prototype.toString(36) of a number in [0, 1)
ToString36(digits) == IF digits = <<>> THEN <<"0">> ELSE <<"0", ".">> \o digits

\* the index substring is given
SuffixStart == 7

\* String.prototype.substring(start)
Substring(s, start) == IF start >= Len(s) THEN <<>> ELSE SubSeq(s, start + 1, Len(s))

\* Math.random().toString(36).substring(7)
archivalSuffix(digits) == Substring(ToString36(digits), SuffixStart)

\* 0, 0.5, and two draws with more digits than substring removes
Draws ==
    {<<>>, <<"i">>, <<"4", "f", "z", "y", "o", "8">>,
     <<"0", "0", "k", "3", "x", "q", "2", "m">>}

ArchivalTexts == {<<"A">>, <<"b">>, <<"A", "b">>}

NextArchival ==
    \/ Tick
    \/ \E content \in ArchivalTexts, digits \in Draws, err \in WriteErrs :
          InsertArchival(content, archivalSuffix(digits), err)

SpecArchival == Init /\ [][NextArchival]_vars

LowerAlnum ==
    {"0", "1", "2", "3", "4", "5", "6", "7", "8", "9",
     "a", "b", "c", "d", "e", "f", "g", "h", "i", "j", "k", "l", "m",
     "n", "o", "p", "q", "r", "s", "t", "u", "v", "w", "x", "y", "z"}

\* C30 (as claimed): every id insertArchival returns matches
\* ^archival_\d+_[a-z0-9]+$, with a suffix that is not empty, and the row is
\* stored under that id.
C30_ArchivalIdFormat ==
    (last.op = "insertArchival" /\ last.res = "ok") =>
        LET id == last.out[1]
        IN /\ id[1] = "archival"
           /\ id[2] \in Nat
           /\ id[3] # <<>>
           /\ \A i \in 1..Len(id[3]) : id[3][i] \in LowerAlnum
           /\ id \in DOMAIN archival

----------------------------------------------------------------------------
(* The summaries loaded into the context: SpecContext *)

\* recentSummaryCount of DEFAULT_CONFIG
recentSummaryCount == 3

\* the LIMIT of the query for the recursive summaries
RecursiveLimit == 2

\* x comes before y under ORDER BY summary_level DESC, created_at DESC
ComesBefore(rows, x, y) ==
    \/ rows[x].level > rows[y].level
    \/ /\ rows[x].level = rows[y].level
       /\ rows[x].created_at > rows[y].created_at

\* The answers ORDER BY summary_level DESC, created_at DESC LIMIT k allows over
\* the rows S: the order of rows the ORDER BY does not tell apart is open.
RECURSIVE OrderedDescLimit(_, _, _)
OrderedDescLimit(rows, S, k) ==
    IF k = 0 \/ S = {}
    THEN {<<>>}
    ELSE LET first == {x \in S : \A y \in S : ~ComesBefore(rows, y, x)}
         IN UNION {{<<x>> \o q : q \in OrderedDescLimit(rows, S \ {x}, k - 1)} :
                   x \in first}

\* the two queries of loadSummariesForContext; the answers are lists of ids
loadSummariesForContext(rows) ==
    {[base |-> b, recursive |-> r] :
        b \in OrderedDescLimit(rows, {i \in 1..Len(rows) : rows[i].level = 0},
                               recentSummaryCount),
        r \in OrderedDescLimit(rows, {i \in 1..Len(rows) : rows[i].level > 0},
                               RecursiveLimit)}

LoadSummariesForContext ==
    /\ \E o \in loadSummariesForContext(summaries) :
          last' = Last("loadSummariesForContext", "", "ok", <<o.base, o.recursive>>)
    /\ UNCHANGED <<summaries, promo, ladderFrame>>

NextContext ==
    \/ Tick
    \/ \E llm \in Llm : CallCreateBaseSummary(llm)
    \/ \E inputs \in IdLists(summaries) \cup {<<>>},
          targetLevel \in 1..maxLevel, llm \in Llm :
          CallCreateRecursiveSummary(inputs, targetLevel, llm)
    \/ LoadSummariesForContext

SpecContext == Init /\ [][NextContext]_vars

\* the rows of a level none of which is more recent
MostRecent(rows, level) ==
    {i \in 1..Len(rows) :
        /\ rows[i].level = level
        /\ \A j \in 1..Len(rows) :
              rows[j].level = level => rows[j].created_at <= rows[i].created_at}

Range(q) == {q[i] : i \in 1..Len(q)}

\* C31 (as claimed): what loadSummariesForContext returns holds a most recent
\* level-2 row when the table has a level-2 row, a most recent level-1 row
\* when the table has a level-1 row, and the last recentSummaryCount level-0
\* rows.
C31_LoadsOnePerLevel ==
    (last.op = "loadSummariesForContext" /\ last.res = "ok") =>
        LET base == last.out[1]
            recursive == last.out[2]
            level0 == {i \in 1..Len(summaries) : summaries[i].level = 0}
        IN /\ \A level \in {1, 2} :
                 MostRecent(summaries, level) # {} =>
                    Range(recursive) \cap MostRecent(summaries, level) # {}
           /\ Len(base) = Min(recentSummaryCount, Cardinality(level0))
           /\ \A i \in Range(base), j \in level0 \ Range(base) :
                 summaries[j].created_at <= summaries[i].created_at

----------------------------------------------------------------------------------------------------------------------------------------
(* Searching leaves the store as it was: SpecRepeat *)

\* memory_search, the call kept with its results
ExecuteMemorySearch(query, sel, limit, useSemanticSearch, ord) ==
    LET o == executeMemorySearch(Store, Index, query, sel, limit,
                                 useSemanticSearch, ord, ai, "none")
    IN /\ blocks' = o.st.blocks
       /\ cache' = o.st.cache
       /\ last' = [Last("executeMemorySearch", "", o.res,
                        <<[query |-> query, sel |-> sel, limit |-> limit,
                           useSemanticSearch |-> useSemanticSearch, ord |-> ord],
                          o.results>>)
                   EXCEPT !.sub = o.sub]
       /\ UNCHANGED <<emb, embTable, ai, now, archival, ladderVars, legacyVars>>

NextRepeat ==
    \/ InitializeEmbeddingsTables
    \/ \E mode \in {"up", "down", "baddim"} : SetGateway(mode)
    \/ \E c \in IndexCreates : CreateBlock(c[1], "L1", c[2], "undefined", "none")
    \/ \E id \in BlockIds : DeleteBlock(id, "none")
    \/ \E k \in Answers : \E ord \in Orders(blocks, DOMAIN blocks) :
          EnsureBlockEmbeddings(ord, k)
    \/ \E query \in Queries, sel \in Selections, limit \in Limits,
          useSemanticSearch \in BOOLEAN :
          \E ord \in Orders(blocks, DOMAIN blocks) :
             ExecuteMemorySearch(query, sel, limit, useSemanticSearch, ord)

SpecRepeat == Init /\ [][NextRepeat]_vars

\* the call args made on the store st and the index e
SearchAgain(st, e, args, mode) ==
    executeMemorySearch(st, e, args.query, args.sel, args.limit,
                        args.useSemanticSearch, args.ord, mode, "none")

----------------------------------------------------------------------------
(* cosineSimilarity on vectors of its own: SpecCosine *)

Components == {-1, 0, 1}

\* the vectors of up to Dim + 1 components
Vectors == UNION {[1..n -> Components] : n \in 0..(Dim + 1)}

\* a caller holding two vectors
InitCosine ==
    /\ InitLadder
    /\ InitLegacy
    /\ blocks = EmptyMap
    /\ cache = EmptyMap
    /\ emb = EmptyMap
    /\ embTable = FALSE
    /\ ai = "up"
    /\ now = 0
    /\ archival = EmptyMap
    /\ \E a \in Vectors, b \in Vectors : last = Last("vectors", "", "ok", <<a, b>>)

CosineSimilarity ==
    /\ last.op = "vectors"
    /\ LET c == cosineSimilarity(last.out[1], last.out[2])
       IN last' = Last("cosineSimilarity", "", c.res,
                       <<last.out[1], last.out[2], c>>)
    /\ UNCHANGED <<blocks, cache, emb, embTable, ai, now, archival,
                   ladderVars, legacyVars>>

NextCosine == CosineSimilarity

SpecCosine == InitCosine /\ [][NextCosine]_vars

\* C33: cosineSimilarity throws for vectors of unequal length; for vectors of
\* equal length it returns, it returns 0 when a norm is zero, and it divides
\* by a denominator that is not zero otherwise.
C33_CosineGuards ==
    last.op = "cosineSimilarity" =>
        LET a == last.out[1]
            b == last.out[2]
            c == last.out[3]
            zero == DotProduct(a, a) = 0 \/ DotProduct(b, b) = 0
        IN /\ Len(a) # Len(b) => last.res = "die"
           /\ Len(a) = Len(b) => last.res = "ok"
           /\ (Len(a) = Len(b) /\ zero) => (c.dot = 0 /\ c.den2 = 0)
           /\ (Len(a) = Len(b) /\ ~zero) =>
                 (c.den2 # 0 /\ c.dot = DotProduct(a, b))

\* a zero vector against a vector that is not zero, of the same length
C33_Witness ==
    /\ last.op = "cosineSimilarity"
    /\ last.res = "ok"
    /\ last.out[1] = <<0, 0>>
    /\ last.out[2] = <<1, 0>>
    /\ last.out[3].den2 = 0

----------------------------------------------------------------------------
(* The cache of the block store against its table: Spec *)

\* C34: after any operations through the store handle, failed ones included,
\* every cache entry is the row of memory_blocks with its id, there is no
\* cache entry without a row, and getBlock returns for every id what a handle
\* opened now on the same table returns.
C34_CacheIsTransparent ==
    /\ \A id \in DOMAIN cache :
          /\ id \in DOMAIN blocks
          /\ cache[id] = RowToBlock(id, blocks[id])
    /\ \A id \in BlockIds :
          LET fresh == [blocks |-> blocks, cache |-> loadCache(Store, "none")]
              here == getBlock(Store, id, "none")
              there == getBlock(fresh, id, "none")
          IN here.res = there.res /\ here.val = there.val

\* an update whose statement failed, on a block that is cached, next to a
\* block that is not
C34_Witness ==
    /\ last.op = "updateBlock"
    /\ last.res = "fail"
    /\ last.id \in DOMAIN cache
    /\ DOMAIN cache # DOMAIN blocks

----------------------------------------------------------------------------
(* The legacy manager used while the migration functions run on its table:  *)
(* SpecMixed                                                                *)

MixedPurposes == {<<"r", "o", "l", "e">>, <<"n">>}

NextMixed ==
    \/ InitializeDatabase
    \/ InitializeLegacy
    \/ \E purpose \in MixedPurposes, text \in LegacyTexts :
          WriteMemory(purpose, text)
    \/ \E purpose \in MixedPurposes : ReadMemory(purpose, "none")
    \/ \E purpose \in MixedPurposes : DeleteMemory(purpose, "none")
    \/ LoadMemories("none")
    \/ MigrateLegacyMemoriesToBlocks(0)
    \/ RollbackMigration

SpecMixed == InitMigrate /\ [][NextMixed]_vars

\* C35 (as claimed): a read that returns gives what agent_memory holds for
\* the purpose at that moment: the text of its row, and nothing when there is
\* no such row or the table has been renamed away.
C35_ReadReflectsTable ==
    (last.op = "readMemory" /\ last.res = "ok") =>
        LET held == RowsFor(agent_memory, last.out[1])
        IN IF held = {}
           THEN Len(last.out) = 1
           ELSE /\ Len(last.out) = 2
                /\ \E r \in held : r.text = last.out[2]

----------------------------------------------------------------------------
(* Message counts along the ladder: SpecCounts. One caller runs the promotion
   as README.md and part_005 give it and as markSummariesConsolidated is
   documented: check, createRecursiveSummary on what the check returned, then
   markSummariesConsolidated on those same rows; the next check comes after. *)

\* messages.length of the conversations that are summarised
MessageCounts == {1, 2}

BaseRows(rows) == {i \in 1..Len(rows) : rows[i].level = 0}

\* the caller checks again only once the promotion it started is marked
DisciplinedCheck ==
    /\ promo.step # "created"
    /\ CheckPromotion

\* the conversations that are summarised
MaxBase == 4

CountedBaseSummary(messages, llm) ==
    /\ Cardinality(BaseRows(summaries)) < MaxBase
    /\ CreateBaseSummaryOf(messages, llm)

NextCounts ==
    \/ \E messages \in MessageCounts, llm \in Llm : CountedBaseSummary(messages, llm)
    \/ DisciplinedCheck
    \/ \E llm \in Llm : CreateRecursiveSummary(llm)
    \/ MarkSummariesConsolidated

SpecCounts == Init /\ [][NextCounts]_vars

\* the sum of message_count over the rows with ids in S
RECURSIVE SumCounts(_, _)
SumCounts(rows, S) ==
    IF S = {} THEN 0
    ELSE LET x == CHOOSE y \in S : TRUE
         IN rows[x].message_count + SumCounts(rows, S \ {x})

AllUnconsolidated(rows) == {i \in 1..Len(rows) : rows[i].parent = 0}

\* C36: when every successful create_recursive_summary is followed by
\* mark_consolidated on exactly its inputs, then in every state between
\* promotions the message counts of the rows without a parent add up to the
\* messages passed to the successful create_base_summary calls (each of which
\* left one level-0 row), and the message_count of every recursive row is the
\* sum of the message counts of the rows whose parent it is.
C36_MessagesConserved ==
    promo.step # "created" =>
        /\ SumCounts(summaries, AllUnconsolidated(summaries))
              = SumCounts(summaries, BaseRows(summaries))
        /\ \A i \in 1..Len(summaries) :
              summaries[i].level > 0
              => summaries[i].message_count = SumCounts(summaries, InputsOf(i))

\* a promotion is over whose inputs summarise conversations of different
\* lengths, and a base summary has been added since
C36_Witness ==
    /\ promo.step = "idle"
    /\ \E i \in 1..Len(summaries) :
          /\ summaries[i].level = 1
          /\ Cardinality(InputsOf(i)) = recursiveThreshold
          /\ \E x, y \in InputsOf(i) :
                summaries[x].message_count # summaries[y].message_count
          /\ \E j \in 1..Len(summaries) :
                j > i /\ summaries[j].level = 0 /\ summaries[j].parent = 0

----------------------------------------------------------------------------
(* The promotion loop: SpecLoop. The caller of part_005 and README.md, run
   until the check answers that nothing is needed: check, then
   createRecursiveSummary on what the check returned, then
   markSummariesConsolidated on the same rows, the LLM answering. The loop
   starts from any table of at most LoopRows rows; a loop that terminates
   from there never has more than MaxRows rows. *)

LoopRows == 3

\* a row as any calls of the four functions may have left it: of any level,
\* with or without a parent; parent 1 stands for a parent that is set
LoopRow ==
    [level : 0..maxLevel, message_count : {1}, parent : {0, 1},
     created_at : 0..MaxClock]

\* the clock only moved forward while the rows were inserted
LadderStates ==
    {rows \in UNION {[1..n -> LoopRow] : n \in 0..LoopRows} :
        \A i, j \in 1..Len(rows) : i < j => rows[i].created_at <= rows[j].created_at}

InitLoop ==
    /\ blocks = EmptyMap
    /\ cache = EmptyMap
    /\ emb = EmptyMap
    /\ embTable = FALSE
    /\ ai = "up"
    /\ now = MaxClock
    /\ archival = EmptyMap
    /\ InitLegacy
    /\ summaries \in LadderStates
    /\ promo = Idle
    /\ last = Last("none", "", "ok", <<0>>)

\* the loop is over once a check has answered that nothing is needed
LoopOver == promo.step = "checked" /\ ~promo.needed

\* last.out counts the promotions the loop has completed
LoopCheck ==
    /\ promo.step = "idle"
    /\ promo' \in checkRecursiveSummarizationNeeded(summaries)
    /\ last' = [last EXCEPT !.op = "checkRecursiveSummarizationNeeded"]
    /\ UNCHANGED <<summaries, ladderFrame>>

LoopCreate ==
    /\ promo.needed
    /\ promo.step = "checked"
    /\ LET o == createRecursiveSummary(summaries, promo.summaries, promo.level,
                                       now, "answers")
       IN /\ Len(o.rows) <= MaxRows
          /\ summaries' = o.rows
          /\ promo' = [promo EXCEPT !.step = "created", !.parent = o.id]
          /\ last' = [last EXCEPT !.op = "createRecursiveSummary"]
    /\ UNCHANGED ladderFrame

LoopMark ==
    /\ promo.step = "created"
    /\ summaries' = markSummariesConsolidated(summaries, promo.summaries, promo.parent)
    /\ promo' = Idle
    /\ last' = [last EXCEPT !.op = "markSummariesConsolidated",
                            !.out = <<last.out[1] + 1>>]
    /\ UNCHANGED ladderFrame

NextLoop == LoopCheck \/ LoopCreate \/ LoopMark

\* the caller goes on with its next step whenever it has one
SpecLoop == InitLoop /\ [][NextLoop]_vars /\ WF_vars(NextLoop)

\* C37: the promotion loop terminates. From any ladder state, repeating check,
\* create_recursive_summary and mark_consolidated with the LLM answering leads
\* to a check that returns not-needed, and in that final state every level
\* below max_level has fewer than recursive_threshold rows without a parent.
C37_LoopTerminates ==
    <>(LoopOver /\ \A L \in Levels : ~Ready(L))

\* the loop is over after two promotions, the second of them to the top level
C37_Witness ==
    /\ LoopOver
    /\ last.out[1] >= 2
    /\ \E i \in 1..Len(summaries) :
          /\ summaries[i].level = maxLevel
          /\ Cardinality(InputsOf(i)) >= recursiveThreshold

----------------------------------------------------------------------------
(* Two promotion runs: SpecRuns. Each run is the caller's check,
   createRecursiveSummary and markSummariesConsolidated. The only suspension
   inside a run is the await of generateText in createRecursiveSummary: the
   check and the text building before it are one step, the INSERT, the read
   of last_insert_rowid and the marking after it are another. Here promo
   holds the position of each run. *)

Runs == {1, 2}

InitRuns ==
    /\ InitStore
    /\ InitLegacy
    /\ summaries = <<>>
    /\ promo = [r \in Runs |-> Idle]

\* the run checks and, when a promotion is needed, calls
\* createRecursiveSummary, which suspends in generateText
RunStart(r) ==
    /\ promo[r].step = "idle"
    /\ \E c \in checkRecursiveSummarizationNeeded(summaries) :
          promo' = [promo EXCEPT ![r] =
                       IF c.needed THEN [c EXCEPT !.step = "awaiting"]
                       ELSE [c EXCEPT !.step = "done"]]
    /\ last' = Last("checkRecursiveSummarizationNeeded", "", "ok", <<r>>)
    /\ UNCHANGED <<summaries, ladderFrame>>

\* generateText settles: on an answer the row is inserted and the inputs the
\* run holds are marked with its id
RunResume(r, llm) ==
    /\ promo[r].step = "awaiting"
    /\ LET o == createRecursiveSummary(summaries, promo[r].summaries,
                                       promo[r].level, now, llm)
       IN /\ Len(o.rows) <= MaxRows
          /\ summaries' = IF o.res = "ok"
                          THEN markSummariesConsolidated(o.rows, promo[r].summaries, o.id)
                          ELSE o.rows
          /\ promo' = [promo EXCEPT ![r] =
                          IF o.res = "ok"
                          THEN [promo[r] EXCEPT !.step = "done", !.parent = o.id]
                          ELSE [Idle EXCEPT !.step = "done"]]
          /\ last' = Last("createRecursiveSummary", "", o.res, <<r>>)
    /\ UNCHANGED ladderFrame

NextRuns ==
    \/ Tick
    \/ \E llm \in Llm : CreateBaseSummary(llm)
    \/ \E r \in Runs : RunStart(r)
    \/ \E r \in Runs, llm \in Llm : RunResume(r, llm)

SpecRuns == InitRuns /\ [][NextRuns]_vars

\* the runs that have inserted a summary
Promoted(p) == {r \in Runs : p[r].step = "done" /\ p[r].parent # 0}

\* C38: when two promotion runs interleave at the LLM suspension point, no
\* summary is an input of two different summaries of the next level, and no
\* summary's parent_summary_id is written a second time.
C38_RunsDoNotCollide ==
    [][ /\ \A r1, r2 \in Promoted(promo') :
              r1 # r2 => Range(promo'[r1].summaries) \cap Range(promo'[r2].summaries) = {}
        /\ \A i \in 1..Len(summaries) :
              summaries[i].parent # 0 => summaries'[i].parent = summaries[i].parent ]_vars

----------------------------------------------------------------------------
(* Two insert_content calls on one block, issued together: SpecPair.
   insertContent is getBlock, which answers from blocksCache or from a
   synchronous sql.exec, and then updateBlock, whose sql.exec is synchronous
   too: there is no await, embed or LLM call between the read and the write,
   so a call that has started runs to its end before the other call runs, in
   either order. last.out holds the two calls and the turn each one ran in. *)

PairContents == {<<>>, <<"b">>}

PairCalls == [content : InsertTexts, position : {"start", "end"}, ran : {0}]

InitPair ==
    /\ InitLadder
    /\ InitLegacy
    /\ \E content \in PairContents :
          LET o == createBlock([blocks |-> EmptyMap, cache |-> EmptyMap],
                               TextBlock, "L1", content, "core", 0, "none")
          IN blocks = o.st.blocks /\ cache = o.st.cache
    /\ emb = EmptyMap
    /\ embTable = FALSE
    /\ ai = "up"
    /\ now = 0
    /\ archival = EmptyMap
    /\ \E c1, c2 \in PairCalls : last = Last("issued", TextBlock, "ok", <<c1, c2>>)

Turns(out) == Cardinality({k \in 1..Len(out) : out[k].ran # 0})

\* call k runs, from its read of the block to its write
RunInsert(k) ==
    /\ k \in 1..Len(last.out)
    /\ last.out[k].ran = 0
    /\ LET call == last.out[k]
           o == insertContent(Store, TextBlock, call.content, call.position, now, "none")
       IN /\ blocks' = o.st.blocks
          /\ cache' = o.st.cache
          /\ last' = [last EXCEPT !.op = "insertContent", !.res = o.res,
                                  !.out[k].ran = Turns(last.out) + 1]
    /\ UNCHANGED <<emb, embTable, ai, now, archival, ladderVars, legacyVars>>

NextPair == \E k \in {1, 2} : RunInsert(k)

SpecPair == InitPair /\ [][NextPair]_vars

BothRan == last.op = "insertContent" /\ Turns(last.out) = 2

----------------------------------------------------------------------------
(* Migration repeated: migrateLegacyMemoriesToBlocks after rollbackMigration,
   none of their statements failing (SpecMixed), and with failing statements
   (SpecMigrate) *)

\* the number of places of s where pat begins
Occurrences(s, pat) ==
    Cardinality({i \in 1..(Len(s) - Len(pat) + 1) : SubSeq(s, i, i + Len(pat) - 1) = pat})

\* the rows of a legacy table, in agent_memory or in its backup
LegacyEntries == Range(agent_memory.rows) \cup Range(agent_memory_legacy_backup.rows)

\* C40: migration is one-shot. After any sequence of migrate_kv_to_blocks and
\* rollback_migration calls (for example migrate, rollback, migrate), each
\* legacy kv_memory entry appears at most once in the content of its target
\* block.
C40_EntryMigratedOnce ==
    \A r \in LegacyEntries :
        targetBlock(r.purpose) \in DOMAIN blocks
        => Occurrences(blocks[targetBlock(r.purpose)].content,
                       formattedContent(r.purpose, r.text)) <= 1

\* C40, second part: a migrate call made when kv_memory does not exist
\* changes no block.
C40_NoTableNoChange ==
    [][ (last'.op = "migrateLegacyMemoriesToBlocks" /\ ~agent_memory.exists)
        => blocks' = blocks /\ cache' = cache ]_vars

====
